---------------------------- MODULE Spec2Model ----------------------------
(***************************************************************************)
(* SpectreMesh: the bounded, back-pressured frame pipeline of the          *)
(* EmotionSensor (spectre_sensor/src/sensor.rs), the legacy sensors of     *)
(* crates/fear_sensor, and the batch FearCalibrator.                       *)
(*                                                                         *)
(* Real-valued quantities (f32 logits, mean, std_dev) are fixed-point      *)
(* integers in units of 1/Scale.                                           *)
(***************************************************************************)
EXTENDS Integers, Sequences, FiniteSets, TLC

(* ------------------------------ bounds -------------------------------- *)

\* frames the producer loops build together
MaxFrames == 3
\* largest channel_buffer_size the configuration is drawn from
MaxCapacity == 2
\* longest calibration_duration FearCalibrator::new is given, in half seconds
MaxDuration == 4
\* largest fps FearCalibrator::new is given
MaxFps == 2
\* add_sample calls made on the batch FearCalibrator
MaxCalls == 5
\* latest instant of the clock the AdaptiveCalibrator reads
MaxClock == 1
\* longest initial_period an AdaptiveCalibrator is created with
MaxPeriod == 1
\* finite samples an AdaptiveCalibrator takes between two resets
MaxSamples == 31
\* first samples of a calibration period that vary, for a tuned
\* AdaptiveCalibrator
MaxVaried == 2
\* frames the game receives
MaxGameFrames == 4
\* capacity of the outbound event buffer of the gRPC bridge as modelled
\* (tokio::sync::mpsc::channel(100) in create_event_stream)
MaxEventBuffer == 1

VARIABLES
    impl,               \* the sensor implementation the application drives
    config,             \* EmotionSensor.config
    legacy,             \* a legacy sensor's running field and its task's
                        \* frame_count; history: frames built at stop()
    face_detector,      \* face_detector (face_detector_path) is Some
    emotion_session,    \* emotion_session (session) is Some
    calibrator,         \* the sensor's calibrator: None or Some(calibrator)
    state,              \* Arc<Mutex<SensorState>>
    nsessions,          \* processing_loop tasks spawned so far
    pc,                 \* pc[s]: where task s is in processing_loop
    loop_cal,           \* loop_cal[s]: the calibrator moved into task s
    chan,               \* chan[s]: the bounded channel created by start
    start_result,       \* what the last start() call returned
    built,              \* history: built[s], frames task s has built
    delivered,          \* history: delivered[s], the frames consumers got
    closed_rejected,    \* history: frames try_send refused with Closed
    fear_calibrator,    \* a batch FearCalibrator driven through its API
    cal_hist,           \* history: add_sample calls made, baselines
                        \* computed, and what the last call returned
    adaptive_calibrator, \* an AdaptiveCalibrator driven through its API
    adaptive_hist,      \* the clock (Instant::now), and history: the last
                        \* call made on the AdaptiveCalibrator and its result
    emotion_logits,     \* a 7-element logits array ([f32; 7])
    extracted,          \* extracted[p]: what extraction path p returned
                        \* for emotion_logits, None before it ran
    fear_state,         \* the game's FearState resource
    state_lock,         \* who holds the guard of the Mutex around state:
                        \* 0 when it is unlocked, s when task s holds it
    frame_receiver,     \* YuNetFearSensor.frame_receiver is Some
    forward_pc,         \* where the task that forwards frames (the compat
                        \* conversion task, the gRPC event bridge) is
    outbound,           \* the channel the forwarding task sends into
    score_out,          \* the score and calibrated flag of the last frame a
                        \* producer tick put on its channel, None before
    game                \* the game's Receiver<FearFrame> (scores of the
                        \* frames queued), the system that runs next, and
                        \* history: frames received, bucket transitions
                        \* among them, terrain rebuilds done

vars == <<impl, config, state_lock, frame_receiver, forward_pc, outbound, legacy, face_detector, emotion_session, calibrator, state,
          nsessions, pc, loop_cal, chan, start_result,
          built, delivered, closed_rejected, fear_calibrator, cal_hist,
          adaptive_calibrator, adaptive_hist, emotion_logits, extracted,
          fear_state, game, score_out>>

\* the sessions (initialize + start pairs) of the sensor object that the
\* behaviour follows; fixed by the initial state
Sessions == DOMAIN pc

(* ------------------------------ types --------------------------------- *)

PerformanceMetrics_new == [dropped_frames |-> 0]

SensorState_default ==
    [running |-> FALSE, last_error |-> "None", metrics |-> PerformanceMetrics_new]

record_dropped_frame_twice(metrics) ==
    [metrics EXCEPT !.dropped_frames = @ + 2]

record_dropped_frame(metrics) ==
    [metrics EXCEPT !.dropped_frames = @ + 1]

\* the calibrator as the frame pipeline sees it: add_sample fails while frozen
AdaptiveCalibrator_with_defaults == [frozen |-> FALSE]

\* a frame is identified by its place in its task's production order
FearFrame_new(seq) == seq

\* Option<T>: None is the empty sequence, Some(x) the sequence <<x>>
None == <<>>

Some(x) == <<x>>

is_some(o) == Len(o) = 1

unwrap(o) == o[1]

RECURSIVE SumOver(_, _)
SumOver(f, S) ==
    IF S = {} THEN 0
    ELSE LET x == CHOOSE y \in S : TRUE IN f[x] + SumOver(f, S \ {x})

TotalBuilt == SumOver(built, Sessions)

(* --------------------------- the channel ------------------------------ *)

NoChannel == [queue |-> <<>>, cap |-> 0, receivers |-> 0]

bounded(cap) == [queue |-> <<>>, cap |-> cap, receivers |-> 1]

is_closed(ch) == ch.receivers = 0

\* Sender::try_send: Closed is reported before Full
try_send_off_by_one(ch, msg) ==
    IF is_closed(ch) THEN [result |-> "Closed", ch |-> ch]
    ELSE IF Len(ch.queue) > ch.cap THEN [result |-> "Full", ch |-> ch]
    ELSE [result |-> "Ok", ch |-> [ch EXCEPT !.queue = Append(@, msg)]]

try_send(ch, msg) ==
    IF is_closed(ch) THEN [result |-> "Closed", ch |-> ch]
    ELSE IF Len(ch.queue) >= ch.cap THEN [result |-> "Full", ch |-> ch]
    ELSE [result |-> "Ok", ch |-> [ch EXCEPT !.queue = Append(@, msg)]]

\* Receiver::try_recv / recv on a non-empty queue: the oldest message
try_recv_newest(ch) ==
    [msg |-> ch.queue[Len(ch.queue)],
     ch |-> [ch EXCEPT !.queue = SubSeq(@, 1, Len(@) - 1)]]

try_recv(ch) ==
    [msg |-> Head(ch.queue), ch |-> [ch EXCEPT !.queue = Tail(@)]]

(* ------------------------- EmotionSensor API -------------------------- *)

\* initialize(): on success the three handles are set; a failing load
\* returns before any field is assigned (a stuttering step)
Initialize ==
    /\ impl = "emotion"
    /\ face_detector' = TRUE
    /\ emotion_session' = TRUE
    /\ calibrator' = Some(AdaptiveCalibrator_with_defaults)
    /\ UNCHANGED <<impl, config, state_lock, frame_receiver, forward_pc, outbound, score_out, fear_state, game, emotion_logits, extracted, adaptive_calibrator, adaptive_hist, fear_calibrator, cal_hist, legacy, state, nsessions, pc, loop_cal, chan,
                   start_result, built, delivered, closed_rejected>>

StartNotInitialized ==
    face_detector = FALSE \/ emotion_session = FALSE

Start_marks_running_before_check ==
    /\ impl = "emotion"
    /\ IF StartNotInitialized
       THEN /\ start_result' = "NotInitialized"
            /\ state' = [state EXCEPT !.running = TRUE, !.last_error = "None"]
            /\ UNCHANGED <<face_detector, emotion_session, calibrator,
                           nsessions, pc, loop_cal, chan>>
       ELSE /\ nsessions + 1 \in Sessions
            /\ LET s == nsessions + 1 IN
               /\ chan' = [chan EXCEPT ![s] = bounded(config.channel_buffer_size)]
               /\ state' = [state EXCEPT !.running = TRUE, !.last_error = "None"]
               /\ face_detector' = FALSE
               /\ emotion_session' = FALSE
               /\ loop_cal' = [loop_cal EXCEPT ![s] = unwrap(calibrator)]
               /\ calibrator' = None
               /\ pc' = [pc EXCEPT ![s] = "spawned"]
               /\ nsessions' = s
            /\ start_result' = "Ok"
    /\ UNCHANGED <<impl, config, state_lock, frame_receiver, forward_pc, outbound, score_out, fear_state, game, emotion_logits, extracted, adaptive_calibrator, adaptive_hist, fear_calibrator, cal_hist, legacy, built, delivered, closed_rejected>>

Start ==
    /\ impl = "emotion"
    /\ IF StartNotInitialized
       THEN /\ start_result' = "NotInitialized"
            /\ UNCHANGED <<face_detector, emotion_session, calibrator, state,
                           nsessions, pc, loop_cal, chan>>
       ELSE /\ nsessions + 1 \in Sessions
            /\ LET s == nsessions + 1 IN
               /\ chan' = [chan EXCEPT ![s] = bounded(config.channel_buffer_size)]
               /\ state' = [state EXCEPT !.running = TRUE, !.last_error = "None"]
               /\ face_detector' = FALSE
               /\ emotion_session' = FALSE
               /\ loop_cal' = [loop_cal EXCEPT ![s] = unwrap(calibrator)]
               /\ calibrator' = None
               /\ pc' = [pc EXCEPT ![s] = "spawned"]
               /\ nsessions' = s
            /\ start_result' = "Ok"
    /\ UNCHANGED <<impl, config, state_lock, frame_receiver, forward_pc, outbound, score_out, fear_state, game, emotion_logits, extracted, adaptive_calibrator, adaptive_hist, fear_calibrator, cal_hist, legacy, built, delivered, closed_rejected>>

Stop ==
    /\ impl = "emotion"
    /\ state' = [state EXCEPT !.running = FALSE]
    /\ UNCHANGED <<impl, config, state_lock, frame_receiver, forward_pc, outbound, score_out, fear_state, game, emotion_logits, extracted, adaptive_calibrator, adaptive_hist, fear_calibrator, cal_hist, legacy, face_detector, emotion_session, calibrator,
                   nsessions, pc, loop_cal, chan, start_result,
                   built, delivered, closed_rejected>>

control_calibration(freeze) ==
    /\ impl = "emotion"
    /\ calibrator' = IF is_some(calibrator)
                     THEN Some([unwrap(calibrator) EXCEPT !.frozen = freeze])
                     ELSE calibrator
    /\ UNCHANGED <<impl, config, state_lock, frame_receiver, forward_pc, outbound, score_out, fear_state, game, emotion_logits, extracted, adaptive_calibrator, adaptive_hist, fear_calibrator, cal_hist, legacy, face_detector, emotion_session, state,
                   nsessions, pc, loop_cal, chan, start_result,
                   built, delivered, closed_rejected>>

ControlCalibration == \E freeze \in BOOLEAN : control_calibration(freeze)

\* reset_calibration(): calibrator.reset() on the sensor's own calibrator
\* when it has one (reset clears frozen); Ok(()) either way
reset_calibration ==
    /\ impl = "emotion"
    /\ calibrator' = IF is_some(calibrator)
                     THEN Some([unwrap(calibrator) EXCEPT !.frozen = FALSE])
                     ELSE calibrator
    /\ UNCHANGED <<impl, config, state_lock, frame_receiver, forward_pc, outbound, score_out, fear_state, game, emotion_logits, extracted, adaptive_calibrator, adaptive_hist, fear_calibrator, cal_hist, legacy, face_detector, emotion_session, state,
                   nsessions, pc, loop_cal, chan, start_result,
                   built, delivered, closed_rejected>>

(* -------------------------- processing_loop --------------------------- *)
(* The task is cut where it touches what other tasks see: the running    *)
(* flag read at the top, the writes of last_error / dropped_frames and   *)
(* the try_send of the tick, and the write of running on exit.  Steps    *)
(* that touch only task-local data are joined to the step before them.   *)

LoopUnchanged ==
    UNCHANGED <<impl, config, state_lock, frame_receiver, forward_pc, outbound, score_out, fear_state, game, emotion_logits, extracted, adaptive_calibrator, adaptive_hist, fear_calibrator, cal_hist, legacy, face_detector, emotion_session, calibrator,
                nsessions, loop_cal, start_result>>

\* initialize_camera_with_backend_detection(..)?: a camera that does not
\* open makes the task return Err without touching the shared state
LoopCameraInit(s) ==
    /\ pc[s] = "spawned"
    /\ \E opened \in BOOLEAN :
           pc' = [pc EXCEPT ![s] = IF opened THEN "top" ELSE "failed"]
    /\ LoopUnchanged
    /\ UNCHANGED <<state, chan, built, delivered, closed_rejected>>

\* top of the loop: read running under the lock and break when it is false;
\* otherwise camera.read, where a failed or empty read sleeps one frame
\* interval and continues
CheckAndCapture_ignores_running(running, captured) ==
    IF ~captured THEN "retry_sleep" ELSE "process"

CheckAndCapture(running, captured) ==
    IF ~running THEN "exit"
    ELSE IF ~captured THEN "retry_sleep"
    ELSE "process"

LoopTop(s) ==
    /\ pc[s] = "top"
    /\ \E captured \in BOOLEAN :
           pc' = [pc EXCEPT ![s] = CheckAndCapture(state.running, captured)]
    /\ LoopUnchanged
    /\ UNCHANGED <<state, chan, built, delivered, closed_rejected>>

LoopRetryWake(s) ==
    /\ pc[s] = "retry_sleep"
    /\ pc' = [pc EXCEPT ![s] = "top"]
    /\ LoopUnchanged
    /\ UNCHANGED <<state, chan, built, delivered, closed_rejected>>

\* process_frame: face detection, crop + inference, calibrator.add_sample,
\* FearFrame::new.  Each `?` returns its error before a frame is built.
process_frame(cal, external) ==
    IF external # "Ok" THEN external
    ELSE IF cal.frozen THEN "Calibration"
    ELSE "Ok"

ExternalResults == {"Ok", "FaceDetection", "FrameProcessing"}

\* match sender.try_send(fear_frame): Ok, Full (record the drop), Closed (break)
SendOutcome_evict_oldest(ch, st, frame) ==
    LET r == try_send(ch, frame) IN
    IF r.result = "Ok" THEN [ch |-> r.ch, state |-> st, break |-> FALSE]
    ELSE IF r.result = "Full"
    THEN [ch |-> [ch EXCEPT !.queue = Append(Tail(@), frame)],
          state |-> [st EXCEPT !.metrics = record_dropped_frame(@)],
          break |-> FALSE]
    ELSE [ch |-> r.ch, state |-> st, break |-> TRUE]

SendOutcome(ch, st, frame) ==
    LET r == try_send(ch, frame) IN
    IF r.result = "Ok" THEN [ch |-> r.ch, state |-> st, break |-> FALSE]
    ELSE IF r.result = "Full"
    THEN [ch |-> r.ch,
          state |-> [st EXCEPT !.metrics = record_dropped_frame(@)],
          break |-> FALSE]
    ELSE [ch |-> r.ch, state |-> st, break |-> TRUE]

\* end of the tick: sleep for the rest of the frame interval when the tick
\* finished early, else go on at once
TickEnd(early) == IF early THEN "pace_sleep" ELSE "top"

\* the body of one tick after a successful capture
LoopProcessFrame(s) ==
    /\ pc[s] = "process"
    /\ \E external \in ExternalResults, early \in BOOLEAN :
         LET r == process_frame(loop_cal[s], external) IN
         IF r = "Ok"
         THEN /\ TotalBuilt < MaxFrames
              /\ LET o == SendOutcome(chan[s], state, FearFrame_new(built[s] + 1)) IN
                 /\ chan' = [chan EXCEPT ![s] = o.ch]
                 /\ state' = o.state
                 /\ pc' = [pc EXCEPT ![s] = IF o.break THEN "exit" ELSE TickEnd(early)]
                 /\ closed_rejected' = IF o.break THEN closed_rejected + 1
                                       ELSE closed_rejected
              /\ built' = [built EXCEPT ![s] = @ + 1]
         ELSE /\ state' = [state EXCEPT !.last_error = r]
              /\ pc' = [pc EXCEPT ![s] = TickEnd(early)]
              /\ UNCHANGED <<chan, built, closed_rejected>>
    /\ LoopUnchanged
    /\ UNCHANGED delivered

LoopPaceWake(s) ==
    /\ pc[s] = "pace_sleep"
    /\ pc' = [pc EXCEPT ![s] = "top"]
    /\ LoopUnchanged
    /\ UNCHANGED <<state, chan, built, delivered, closed_rejected>>

\* after the loop: running = false
LoopExit(s) ==
    /\ pc[s] = "exit"
    /\ state' = [state EXCEPT !.running = FALSE]
    /\ pc' = [pc EXCEPT ![s] = "done"]
    /\ LoopUnchanged
    /\ UNCHANGED <<chan, built, delivered, closed_rejected>>

LoopStep(s) ==
    \/ LoopCameraInit(s)
    \/ LoopTop(s)
    \/ LoopRetryWake(s)
    \/ LoopProcessFrame(s)
    \/ LoopPaceWake(s)
    \/ LoopExit(s)

(* ---------------------- the Mutex around SensorState ------------------ *)
(* processing_loop once more, cut finer: at every state.lock(), at the   *)
(* end of the scope of every guard, and at every .await.  state_lock is  *)
(* the task that holds the guard.                                        *)

MutexLoopUnchanged ==
    UNCHANGED <<impl, config, frame_receiver, forward_pc, outbound, score_out,
                fear_state, game, emotion_logits, extracted,
                adaptive_calibrator, adaptive_hist, fear_calibrator, cal_hist,
                legacy, face_detector, emotion_session, calibrator,
                nsessions, loop_cal, start_result>>

\* state.lock().unwrap() at position `at`: the task goes on to `locked`
\* once the mutex is free
lock(s, at, locked) ==
    /\ pc[s] = at
    /\ state_lock = 0
    /\ state_lock' = s
    /\ pc' = [pc EXCEPT ![s] = locked]
    /\ MutexLoopUnchanged
    /\ UNCHANGED <<state, chan, built, delivered, closed_rejected>>

\* start() and stop() take the lock for their write of running
MutexStart == (StartNotInitialized \/ state_lock = 0) /\ Start

MutexStop == state_lock = 0 /\ Stop

\* { let state_guard = state.lock().unwrap(); if !state_guard.running
\* { break; } }
LockAtTop(s) == lock(s, "top", "top_locked")

\* the guard goes at the end of the block; camera.read follows
CheckRunning(s) ==
    /\ pc[s] = "top_locked"
    /\ state_lock = s
    /\ \E captured \in BOOLEAN :
           pc' = [pc EXCEPT ![s] = CheckAndCapture(state.running, captured)]
    /\ state_lock' = 0
    /\ MutexLoopUnchanged
    /\ UNCHANGED <<state, chan, built, delivered, closed_rejected>>

\* process_frame(..).await returned, and the match on it up to the first
\* lock(): Ok and sent, Ok and Full, Ok and Closed (break), Err
MatchProcessFrame(s) ==
    /\ pc[s] = "process"
    /\ \E external \in ExternalResults :
         LET r == process_frame(loop_cal[s], external) IN
         IF r = "Ok"
         THEN /\ TotalBuilt < MaxFrames
              /\ LET o == try_send(chan[s], FearFrame_new(built[s] + 1)) IN
                 /\ chan' = [chan EXCEPT ![s] = o.ch]
                 /\ pc' = [pc EXCEPT ![s] =
                              IF o.result = "Ok" THEN "metrics"
                              ELSE IF o.result = "Full" THEN "full"
                              ELSE "exit"]
                 /\ closed_rejected' = IF o.result = "Closed"
                                       THEN closed_rejected + 1
                                       ELSE closed_rejected
              /\ built' = [built EXCEPT ![s] = @ + 1]
         ELSE /\ pc' = [pc EXCEPT ![s] = "error"]
              /\ UNCHANGED <<chan, built, closed_rejected>>
    /\ MutexLoopUnchanged
    /\ UNCHANGED <<state, state_lock, delivered>>

\* Full arm: let mut state_guard = state.lock().unwrap();
LockAtFull(s) == lock(s, "full", "full_locked")

RecordDrop_guard_outlives_tick(s) ==
    /\ pc[s] = "full_locked"
    /\ state_lock = s
    /\ state' = [state EXCEPT !.metrics = record_dropped_frame(@)]
    /\ pc' = [pc EXCEPT ![s] = "pace_sleep"]
    /\ MutexLoopUnchanged
    /\ UNCHANGED <<state_lock, chan, built, delivered, closed_rejected>>

\* state_guard.metrics.record_dropped_frame(); the guard goes at the end
\* of the arm
RecordDrop(s) ==
    /\ pc[s] = "full_locked"
    /\ state_lock = s
    /\ state' = [state EXCEPT !.metrics = record_dropped_frame(@)]
    /\ state_lock' = 0
    /\ pc' = [pc EXCEPT ![s] = "metrics"]
    /\ MutexLoopUnchanged
    /\ UNCHANGED <<chan, built, delivered, closed_rejected>>

\* Err arm: let mut state_guard = state.lock().unwrap();
LockAtError(s) == lock(s, "error", "error_locked")

\* state_guard.last_error = Some(e.to_string()); the guard goes at the
\* end of the arm
WriteLastError(s) ==
    /\ pc[s] = "error_locked"
    /\ state_lock = s
    /\ \E external \in ExternalResults :
         LET r == process_frame(loop_cal[s], external) IN
         /\ r # "Ok"
         /\ state' = [state EXCEPT !.last_error = r]
    /\ state_lock' = 0
    /\ pc' = [pc EXCEPT ![s] = "metrics"]
    /\ MutexLoopUnchanged
    /\ UNCHANGED <<chan, built, delivered, closed_rejected>>

\* frame_count += 1; if last_metrics_update.elapsed() >= 1 s the metrics
\* are updated under the lock, else the tick ends
AfterMatch(s) ==
    /\ pc[s] = "metrics"
    /\ \E due \in BOOLEAN, early \in BOOLEAN :
           pc' = [pc EXCEPT ![s] = IF due THEN "metrics_due" ELSE TickEnd(early)]
    /\ MutexLoopUnchanged
    /\ UNCHANGED <<state, state_lock, chan, built, delivered, closed_rejected>>

LockAtMetrics(s) == lock(s, "metrics_due", "metrics_locked")

\* the periodic update (of fields the model does not keep); the guard goes
\* at the end of the if block, then the tick ends
UpdateMetrics(s) ==
    /\ pc[s] = "metrics_locked"
    /\ state_lock = s
    /\ state_lock' = 0
    /\ \E early \in BOOLEAN : pc' = [pc EXCEPT ![s] = TickEnd(early)]
    /\ MutexLoopUnchanged
    /\ UNCHANGED <<state, chan, built, delivered, closed_rejected>>

\* after the loop: { let mut state_guard = state.lock().unwrap();
LockAtExit(s) == lock(s, "exit", "exit_locked")

\* state_guard.running = false; }
SetNotRunning(s) ==
    /\ pc[s] = "exit_locked"
    /\ state_lock = s
    /\ state' = [state EXCEPT !.running = FALSE]
    /\ state_lock' = 0
    /\ pc' = [pc EXCEPT ![s] = "done"]
    /\ MutexLoopUnchanged
    /\ UNCHANGED <<chan, built, delivered, closed_rejected>>

MutexLoopStep(s) ==
    \/ LoopCameraInit(s)
    \/ LockAtTop(s)
    \/ CheckRunning(s)
    \/ LoopRetryWake(s)
    \/ MatchProcessFrame(s)
    \/ LockAtFull(s)
    \/ RecordDrop(s)
    \/ LockAtError(s)
    \/ WriteLastError(s)
    \/ AfterMatch(s)
    \/ LockAtMetrics(s)
    \/ UpdateMetrics(s)
    \/ LoopPaceWake(s)
    \/ LockAtExit(s)
    \/ SetNotRunning(s)

(* ------------------------- forwarding tasks --------------------------- *)
(* The tasks that take frames off the EmotionSensor's channel and send   *)
(* them on: the conversion task of YuNetFearSensor::start (compat.rs)    *)
(* and the event bridge of create_event_stream (grpc_server.rs, with no  *)
(* event filter, so that every frame is an event to send).               *)

ScoreChannelCapacity == 2

ForwardUnchanged ==
    UNCHANGED <<impl, config, state_lock, score_out, fear_state, game,
                emotion_logits, extracted, adaptive_calibrator, adaptive_hist,
                fear_calibrator, cal_hist, legacy, built, delivered,
                closed_rejected>>

\* YuNetFearSensor::start: emotion_sensor.start()?, the score channel, a
\* clone of the frame receiver kept in self.frame_receiver, the conversion
\* task spawned with the receiver itself
YuNetStart ==
    /\ impl = "emotion"
    /\ IF StartNotInitialized
       THEN /\ start_result' = "NotInitialized"
            /\ UNCHANGED <<face_detector, emotion_session, calibrator, state,
                           nsessions, pc, loop_cal, chan,
                           frame_receiver, forward_pc, outbound>>
       ELSE /\ nsessions + 1 \in Sessions
            /\ LET s == nsessions + 1 IN
               /\ chan' = [chan EXCEPT ![s] =
                             [bounded(config.channel_buffer_size)
                                 EXCEPT !.receivers = @ + 1]]
               /\ state' = [state EXCEPT !.running = TRUE, !.last_error = "None"]
               /\ face_detector' = FALSE
               /\ emotion_session' = FALSE
               /\ loop_cal' = [loop_cal EXCEPT ![s] = unwrap(calibrator)]
               /\ calibrator' = None
               /\ pc' = [pc EXCEPT ![s] = "spawned"]
               /\ nsessions' = s
            /\ outbound' = bounded(ScoreChannelCapacity)
            /\ frame_receiver' = TRUE
            /\ forward_pc' = "convert"
            /\ start_result' = "Ok"
    /\ ForwardUnchanged

\* YuNetFearSensor::stop: emotion_sensor.stop(), then the clone is dropped
YuNetStop ==
    /\ impl = "emotion"
    /\ state' = [state EXCEPT !.running = FALSE]
    /\ frame_receiver' = FALSE
    /\ chan' = IF frame_receiver
               THEN [chan EXCEPT ![nsessions].receivers = @ - 1]
               ELSE chan
    /\ UNCHANGED <<face_detector, emotion_session, calibrator, nsessions, pc,
                   loop_cal, start_result, forward_pc, outbound>>
    /\ ForwardUnchanged

\* stream_events: sensor.start() (an Err becomes a Status), then
\* create_event_stream: the event buffer, and the bridge task spawned with
\* the frame receiver
StreamEvents ==
    /\ impl = "emotion"
    /\ IF StartNotInitialized
       THEN /\ start_result' = "NotInitialized"
            /\ UNCHANGED <<face_detector, emotion_session, calibrator, state,
                           nsessions, pc, loop_cal, chan,
                           frame_receiver, forward_pc, outbound>>
       ELSE /\ nsessions + 1 \in Sessions
            /\ LET s == nsessions + 1 IN
               /\ chan' = [chan EXCEPT ![s] = bounded(config.channel_buffer_size)]
               /\ state' = [state EXCEPT !.running = TRUE, !.last_error = "None"]
               /\ face_detector' = FALSE
               /\ emotion_session' = FALSE
               /\ loop_cal' = [loop_cal EXCEPT ![s] = unwrap(calibrator)]
               /\ calibrator' = None
               /\ pc' = [pc EXCEPT ![s] = "spawned"]
               /\ nsessions' = s
            /\ outbound' = bounded(MaxEventBuffer)
            /\ forward_pc' = "bridge"
            /\ UNCHANGED frame_receiver
            /\ start_result' = "Ok"
    /\ ForwardUnchanged

\* the Sender of the frame channel is gone: the producer task has ended
sender_dropped(s) == pc[s] \in {"done", "failed"}

\* one turn of `while let Ok(fear_frame) = receiver.recv().await`: recv
\* yields the oldest frame, or Err once the channel is empty and its sender
\* gone; the frame is converted and try_sent; where the task breaks, its
\* receiver is dropped with it
forward(s, breaks_on) ==
    IF Len(chan[s].queue) > 0
    THEN LET r == try_recv(chan[s])
             o == try_send(outbound, r.msg)
             break == o.result \in breaks_on
         IN  [chan |-> IF break THEN [r.ch EXCEPT !.receivers = @ - 1] ELSE r.ch,
              outbound |-> o.ch,
              break |-> break]
    ELSE [chan |-> [chan[s] EXCEPT !.receivers = @ - 1],
          outbound |-> outbound,
          break |-> TRUE]

\* create_event_stream: if tx.try_send(Ok(event)).is_err() { break; }
BridgeBreaks == {"Full", "Closed"}

\* YuNetFearSensor::start: Full only logs, Closed breaks
ConvertBreaks == {"Closed"}

ForwardTaskUnchanged ==
    UNCHANGED <<face_detector, emotion_session, calibrator, state, nsessions,
                pc, loop_cal, start_result, frame_receiver>>

ConvertStep(s) ==
    /\ forward_pc = "convert"
    /\ s = nsessions
    /\ Len(chan[s].queue) > 0 \/ sender_dropped(s)
    /\ LET f == forward(s, ConvertBreaks) IN
       /\ chan' = [chan EXCEPT ![s] = f.chan]
       /\ outbound' = f.outbound
       /\ forward_pc' = IF f.break THEN "convert_done" ELSE "convert"
    /\ ForwardTaskUnchanged
    /\ ForwardUnchanged

BridgeStep(s) ==
    /\ forward_pc = "bridge"
    /\ s = nsessions
    /\ Len(chan[s].queue) > 0 \/ sender_dropped(s)
    /\ LET f == forward(s, BridgeBreaks) IN
       /\ chan' = [chan EXCEPT ![s] = f.chan]
       /\ outbound' = f.outbound
       /\ forward_pc' = IF f.break THEN "bridge_done" ELSE "bridge"
    /\ ForwardTaskUnchanged
    /\ ForwardUnchanged

\* the consumer of the scores, or the stream client, takes the next item
ClientRecv ==
    /\ ~is_closed(outbound)
    /\ Len(outbound.queue) > 0
    /\ outbound' = try_recv(outbound).ch
    /\ UNCHANGED <<chan, forward_pc>>
    /\ ForwardTaskUnchanged
    /\ ForwardUnchanged

\* the consumer drops the score receiver, or the client its stream
ClientDrop ==
    /\ outbound.receivers > 0
    /\ outbound' = [outbound EXCEPT !.receivers = @ - 1]
    /\ UNCHANGED <<chan, forward_pc>>
    /\ ForwardTaskUnchanged
    /\ ForwardUnchanged

(* ------------------------ SensorConfig from_env ----------------------- *)
(* spectre_sensor/src/config.rs.  Of the configuration the model keeps   *)
(* channel_buffer_size and target_fps (in whole frames per second).      *)

\* what SPECTRE_TARGET_FPS parses to
TargetFpsValues == {-1, 0, 1}

\* from_env(): SPECTRE_BUFFER_SIZE is any usize, SPECTRE_TARGET_FPS any f32
from_env ==
    [channel_buffer_size : 0..MaxCapacity, target_fps : TargetFpsValues]

\* validate(): Err for a target_fps that is not positive or a
\* channel_buffer_size of zero
validate(cfg) ==
    IF cfg.target_fps <= 0 THEN "Err"
    ELSE IF cfg.channel_buffer_size = 0 THEN "Err"
    ELSE "Ok"

\* start() with a configuration from_env made: async_channel::bounded
\* panics on a capacity of zero, before start touches anything
StartFromEnv ==
    IF ~StartNotInitialized /\ config.channel_buffer_size = 0
    THEN /\ impl = "emotion"
         /\ start_result' = "panicked"
         /\ UNCHANGED <<impl, config, state_lock, frame_receiver, forward_pc, outbound, score_out, fear_state, game, emotion_logits, extracted, adaptive_calibrator, adaptive_hist, fear_calibrator, cal_hist, legacy, face_detector, emotion_session, calibrator,
                        state, nsessions, pc, loop_cal, chan,
                        built, delivered, closed_rejected>>
    ELSE Start

\* the task up to its loop: after the camera opened,
\* Duration::from_secs_f32(1.0 / config.target_fps) panics when the
\* quotient is infinite or negative, and the task ends there
LoopSetupFromEnv(s) ==
    IF config.target_fps <= 0
    THEN /\ pc[s] = "spawned"
         /\ \E opened \in BOOLEAN :
                pc' = [pc EXCEPT ![s] = IF opened THEN "panicked" ELSE "failed"]
         /\ LoopUnchanged
         /\ UNCHANGED <<state, chan, built, delivered, closed_rejected>>
    ELSE LoopCameraInit(s)

LoopStepFromEnv(s) ==
    \/ LoopSetupFromEnv(s)
    \/ LoopTop(s)
    \/ LoopRetryWake(s)
    \/ LoopProcessFrame(s)
    \/ LoopPaceWake(s)
    \/ LoopExit(s)

(* --------------------------- legacy sensors --------------------------- *)
(* OnnxFearSensor and MockFearSensor of crates/fear_sensor.  Their handles *)
(* are the variables face_detector (face_detector_path), emotion_session  *)
(* (session) and calibrator; MockFearSensor has the calibrator only.      *)

Legacy == {"onnx", "mock"}

\* OnnxFearSensor::new / MockFearSensor::new; stopped_at is -1 until the
\* first stop() that follows a successful start()
LegacySensor_new == [running |-> FALSE, frame_count |-> 0, stopped_at |-> -1]

\* the channel of OnnxFearSensor::start: async_channel::bounded(2)
OnnxChannelCapacity == 2

\* the frame_count limit of the legacy tasks (10000 and 1000 in the source),
\* scaled to the frames a behaviour builds
LegacyFrameCap == MaxFrames - 1

\* what initialize() stores in self.calibrator
FearCalibrator_fresh == [calibrated |-> FALSE]

\* async_channel::unbounded(): no capacity limit
unbounded == [queue |-> <<>>, cap |-> -1, receivers |-> 1]

\* Sender::send on an unbounded channel never waits
send(ch, msg) ==
    IF is_closed(ch) THEN [result |-> "Closed", ch |-> ch]
    ELSE [result |-> "Ok", ch |-> [ch EXCEPT !.queue = Append(@, msg)]]

LegacyInitialize ==
    /\ impl \in Legacy
    /\ emotion_session' = (impl = "onnx")
    /\ face_detector' = (impl = "onnx")
    /\ calibrator' = Some(FearCalibrator_fresh)
    /\ legacy' = [legacy EXCEPT !.running = FALSE]
    /\ UNCHANGED <<impl, config, state_lock, frame_receiver, forward_pc, outbound, score_out, fear_state, game, emotion_logits, extracted, adaptive_calibrator, adaptive_hist, fear_calibrator, cal_hist, state, nsessions, pc, loop_cal, chan,
                   start_result, built, delivered, closed_rejected>>

LegacyStartNotInitialized ==
    IF impl = "onnx" THEN emotion_session = FALSE \/ face_detector = FALSE
    ELSE ~is_some(calibrator)

LegacyStart ==
    /\ impl \in Legacy
    /\ IF LegacyStartNotInitialized
       THEN /\ start_result' = "OnnxRuntime"
            /\ UNCHANGED <<legacy, face_detector, emotion_session, calibrator,
                           nsessions, pc, chan>>
       ELSE /\ nsessions + 1 \in Sessions
            /\ LET s == nsessions + 1 IN
               /\ chan' = [chan EXCEPT ![s] = IF impl = "onnx"
                                               THEN bounded(OnnxChannelCapacity)
                                               ELSE unbounded]
               /\ pc' = [pc EXCEPT ![s] = IF impl = "onnx" THEN "l_camera"
                                           ELSE "l_tick"]
               /\ nsessions' = s
            /\ legacy' = [legacy EXCEPT !.running = TRUE, !.frame_count = 0]
            /\ face_detector' = FALSE
            /\ emotion_session' = FALSE
            /\ calibrator' = None
            /\ start_result' = "Ok"
    /\ UNCHANGED <<impl, config, state_lock, frame_receiver, forward_pc, outbound, score_out, fear_state, game, emotion_logits, extracted, adaptive_calibrator, adaptive_hist, fear_calibrator, cal_hist, state, loop_cal, built, delivered,
                   closed_rejected>>

\* stop(): self.running = false, and Ok(())
LegacyStop ==
    /\ impl \in Legacy
    /\ legacy' = [legacy EXCEPT
                    !.running = FALSE,
                    !.stopped_at = IF nsessions >= 1 /\ @ = -1 THEN built[1]
                                   ELSE @]
    /\ UNCHANGED <<impl, config, state_lock, frame_receiver, forward_pc, outbound, score_out, fear_state, game, emotion_logits, extracted, adaptive_calibrator, adaptive_hist, fear_calibrator, cal_hist, face_detector, emotion_session, calibrator,
                   state, nsessions, pc, loop_cal, chan, start_result,
                   built, delivered, closed_rejected>>

LegacyLoopUnchanged ==
    UNCHANGED <<impl, config, state_lock, frame_receiver, forward_pc, outbound, score_out, fear_state, game, emotion_logits, extracted, adaptive_calibrator, adaptive_hist, fear_calibrator, cal_hist, face_detector, emotion_session, calibrator,
                state, nsessions, loop_cal, start_result, delivered,
                closed_rejected>>

\* VideoCapture::new(0, CAP_ANY) and is_opened(): the task returns when the
\* camera does not open
LegacyCameraOpen(s) ==
    /\ pc[s] = "l_camera"
    /\ \E opened \in BOOLEAN :
           pc' = [pc EXCEPT ![s] = IF opened THEN "l_tick" ELSE "l_failed"]
    /\ LegacyLoopUnchanged
    /\ UNCHANGED <<legacy, chan, built>>

\* if frame_count > 10000 { break } (1000 in MockFearSensor)
frame_limit_never(frame_count) == FALSE

frame_limit_reached(frame_count) == frame_count > LegacyFrameCap

AfterTick(frame_count) ==
    IF frame_limit_reached(frame_count) THEN "l_done" ELSE "l_tick"

\* one iteration: OnnxFearSensor reads the camera (a failed or empty read
\* sleeps and continues), turns the frame into a score (neutral logits when
\* detection or inference fails) and try_sends it; MockFearSensor takes the
\* next value of its sequence and sends it.  Neither reads self.running.
LegacyTick(s) ==
    /\ pc[s] = "l_tick"
    /\ \E captured \in (IF impl = "onnx" THEN BOOLEAN ELSE {TRUE}),
          early \in (IF impl = "onnx" THEN BOOLEAN ELSE {TRUE}) :
         IF ~captured
         THEN /\ pc' = [pc EXCEPT ![s] = "l_retry_sleep"]
              /\ UNCHANGED <<legacy, chan, built>>
         ELSE /\ TotalBuilt < MaxFrames
              /\ built' = [built EXCEPT ![s] = @ + 1]
              /\ LET r == IF impl = "onnx"
                          THEN try_send(chan[s], FearFrame_new(built[s] + 1))
                          ELSE send(chan[s], FearFrame_new(built[s] + 1))
                     n == legacy.frame_count + 1 IN
                 /\ chan' = [chan EXCEPT ![s] = r.ch]
                 /\ IF r.result = "Closed"
                    THEN /\ pc' = [pc EXCEPT ![s] = "l_done"]
                         /\ UNCHANGED legacy
                    ELSE /\ legacy' = [legacy EXCEPT !.frame_count = n]
                         /\ pc' = [pc EXCEPT ![s] = IF early THEN "l_pace_sleep"
                                                     ELSE AfterTick(n)]
    /\ LegacyLoopUnchanged

LegacyRetryWake(s) ==
    /\ pc[s] = "l_retry_sleep"
    /\ pc' = [pc EXCEPT ![s] = "l_tick"]
    /\ LegacyLoopUnchanged
    /\ UNCHANGED <<legacy, chan, built>>

LegacyPaceWake(s) ==
    /\ pc[s] = "l_pace_sleep"
    /\ pc' = [pc EXCEPT ![s] = AfterTick(legacy.frame_count)]
    /\ LegacyLoopUnchanged
    /\ UNCHANGED <<legacy, chan, built>>

LegacyLoopStep(s) ==
    \/ LegacyCameraOpen(s)
    \/ LegacyTick(s)
    \/ LegacyRetryWake(s)
    \/ LegacyPaceWake(s)

LegacyBuildFrame(s) == LegacyTick(s) /\ built'[s] = built[s] + 1

(* ----------------------------- consumers ------------------------------ *)

ConsumerUnchanged ==
    UNCHANGED <<impl, config, state_lock, frame_receiver, forward_pc, outbound, score_out, fear_state, game, emotion_logits, extracted, adaptive_calibrator, adaptive_hist, fear_calibrator, cal_hist, legacy, face_detector, emotion_session, calibrator,
                state, nsessions, pc, loop_cal, start_result,
                built, closed_rejected>>

\* a dedicated reader: receiver.recv().await takes the next frame
Recv(s) ==
    /\ ~is_closed(chan[s])
    /\ Len(chan[s].queue) > 0
    /\ LET r == try_recv(chan[s]) IN
       /\ chan' = [chan EXCEPT ![s] = r.ch]
       /\ delivered' = [delivered EXCEPT ![s] = Append(@, r.msg)]
    /\ ConsumerUnchanged

\* update_fear_system: while let Ok(frame) = receiver.try_recv()
RECURSIVE DrainAll(_, _)
DrainAll(ch, got) ==
    IF Len(ch.queue) = 0 THEN [ch |-> ch, frames |-> got]
    ELSE LET r == try_recv(ch) IN DrainAll(r.ch, Append(got, r.msg))

update_fear_system(s) ==
    /\ ~is_closed(chan[s])
    /\ LET d == DrainAll(chan[s], <<>>) IN
       /\ chan' = [chan EXCEPT ![s] = d.ch]
       /\ delivered' = [delivered EXCEPT ![s] = @ \o d.frames]
    /\ ConsumerUnchanged

\* the consumer drops its Receiver: the channel closes, what is queued stays
DropReceiver(s) ==
    /\ chan[s].receivers > 0
    /\ chan' = [chan EXCEPT ![s].receivers = @ - 1]
    /\ UNCHANGED delivered
    /\ ConsumerUnchanged

(* ------------------------ batch FearCalibrator ------------------------ *)
(* crates/fear_sensor/src/calibration.rs.  f32 values are integers in    *)
(* units of 1/Scale; a quotient or root is cut to that grid.             *)

Scale == 100

\* raw fear logits fed to add_sample: 0.10, 0.30, 0.80
Samples == {10, 30, 80}

RECURSIVE SeqSum(_)
SeqSum(q) == IF q = <<>> THEN 0 ELSE Head(q) + SeqSum(Tail(q))

\* f32::sqrt on the fixed-point grid
sqrt(v) == CHOOSE r \in 0..v : r * r <= v /\ (r + 1) * (r + 1) > v

\* FearCalibrator::new: (calibration_duration * fps) as usize, the duration
\* given in half seconds
FearCalibrator_new(calibration_duration, fps) ==
    [baseline_samples |-> <<>>,
     target_samples |-> (calibration_duration * fps) \div 2,
     mean |-> 0,
     std_dev |-> Scale,
     calibrated |-> FALSE]

compute_baseline_floor_tenth(c) ==
    IF c.baseline_samples = <<>>
    THEN [cal |-> c, result |-> "CalibrationIncomplete"]
    ELSE LET n == Len(c.baseline_samples)
             mean == SeqSum(c.baseline_samples) \div n
             variance ==
                 SeqSum([i \in 1..n |->
                           (c.baseline_samples[i] - mean)
                               * (c.baseline_samples[i] - mean)]) \div n
             std_dev == sqrt(variance)
         IN [cal |-> [c EXCEPT !.mean = mean,
                               !.std_dev = IF std_dev * 100 < Scale
                                           THEN Scale \div 10 ELSE std_dev,
                               !.calibrated = TRUE],
             result |-> "Ok"]

compute_baseline(c) ==
    IF c.baseline_samples = <<>>
    THEN [cal |-> c, result |-> "CalibrationIncomplete"]
    ELSE LET n == Len(c.baseline_samples)
             mean == SeqSum(c.baseline_samples) \div n
             variance ==
                 SeqSum([i \in 1..n |->
                           (c.baseline_samples[i] - mean)
                               * (c.baseline_samples[i] - mean)]) \div n
             std_dev == sqrt(variance)
         IN [cal |-> [c EXCEPT !.mean = mean,
                               !.std_dev = IF std_dev * 100 < Scale
                                           THEN Scale ELSE std_dev,
                               !.calibrated = TRUE],
             result |-> "Ok"]

add_sample_above_target(c, raw_fear_logit) ==
    IF c.calibrated THEN [cal |-> c, result |-> "Ok", computed |-> 0]
    ELSE LET pushed == [c EXCEPT !.baseline_samples = Append(@, raw_fear_logit)] IN
         IF Len(pushed.baseline_samples) > pushed.target_samples
         THEN LET b == compute_baseline(pushed) IN
              [cal |-> b.cal, result |-> b.result, computed |-> 1]
         ELSE [cal |-> pushed, result |-> "Ok", computed |-> 0]

add_sample_when_calibrated(c, raw_fear_logit) ==
    LET pushed == [c EXCEPT !.baseline_samples = Append(@, raw_fear_logit)] IN
    IF Len(pushed.baseline_samples) >= pushed.target_samples
    THEN LET b == compute_baseline(pushed) IN
         [cal |-> b.cal, result |-> b.result, computed |-> 1]
    ELSE [cal |-> pushed, result |-> "Ok", computed |-> 0]

\* add_sample: the calibrator after the call, what the call returned, and
\* whether it ran compute_baseline
add_sample(c, raw_fear_logit) ==
    IF c.calibrated THEN [cal |-> c, result |-> "Ok", computed |-> 0]
    ELSE LET pushed == [c EXCEPT !.baseline_samples = Append(@, raw_fear_logit)] IN
         IF Len(pushed.baseline_samples) >= pushed.target_samples
         THEN LET b == compute_baseline(pushed) IN
              [cal |-> b.cal, result |-> b.result, computed |-> 1]
         ELSE [cal |-> pushed, result |-> "Ok", computed |-> 0]

is_calibrated(c) == c.calibrated

\* calibration_duration (in half seconds) and fps are what new() was given
CalHist_new ==
    [calls |-> 0, computed |-> 0, result |-> "none",
     calibration_duration |-> 0, fps |-> 1]

\* a caller of the calibrator's API
AddSample ==
    /\ impl = "calibrator"
    /\ cal_hist.calls < MaxCalls
    /\ \E x \in Samples :
         LET r == add_sample(fear_calibrator, x) IN
         /\ fear_calibrator' = r.cal
         /\ cal_hist' = [cal_hist EXCEPT
                            !.calls = @ + 1,
                            !.computed = @ + r.computed,
                            !.result = r.result]
    /\ UNCHANGED <<impl, config, state_lock, frame_receiver, forward_pc, outbound, score_out, fear_state, game, emotion_logits, extracted, adaptive_calibrator, adaptive_hist, legacy, face_detector, emotion_session,
                   calibrator, state, nsessions, pc, loop_cal, chan,
                   start_result, built, delivered, closed_rejected>>

(* ------------------------- AdaptiveCalibrator ------------------------- *)
(* spectre_sensor/src/calibrator.rs.  An f32 argument is <<"finite", v>>, *)
(* v in units of 1/Scale, or <<"nan", 0>>, <<"inf", 0>>, <<"-inf", 0>>.   *)
(* Instants and Durations are whole ticks of the clock.                   *)

finite(v) == <<"finite", v>>

NaN == <<"nan", 0>>

Infinity == <<"inf", 0>>

NegInfinity == <<"-inf", 0>>

is_finite(x) == x[1] = "finite"

\* fear logits fed to AdaptiveCalibrator::add_sample
AdaptiveInputs == {finite(30), finite(50), NaN, Infinity, NegInfinity}

\* min_samples: 30
MinSamples == 30

\* with_defaults: alpha = 0.05
DefaultAlpha == 5

\* .max(0.1): the minimum std_dev
MinStdDev == Scale \div 10

Max(a, b) == IF a >= b THEN a ELSE b

Min(a, b) == IF a <= b THEN a ELSE b

BaselineStats_default == [mean |-> 0, std_dev |-> Scale, sample_count |-> 0]

AdaptiveCalibrator_new(initial_period, alpha, now) ==
    [baseline |-> BaselineStats_default,
     alpha |-> alpha,
     frozen |-> FALSE,
     min_samples |-> MinSamples,
     initial_period |-> initial_period,
     start_time |-> now,
     initial_complete |-> FALSE,
     previous_mean |-> 0]

\* update_initial_calibration, after sample_count was incremented
update_initial_calibration_either(c, v, now) ==
    LET b == c.baseline
        delta == v - b.mean
        variance == b.std_dev * b.std_dev
        new_variance == variance + (delta * delta - variance) \div b.sample_count
        stats == IF b.sample_count = 1
                 THEN [b EXCEPT !.mean = v, !.std_dev = Scale]
                 ELSE [b EXCEPT !.mean = @ + delta \div b.sample_count,
                                !.std_dev = Max(sqrt(new_variance), MinStdDev)]
        complete == \/ now - c.start_time >= c.initial_period
                    \/ stats.sample_count >= c.min_samples
    IN  IF complete
        THEN [c EXCEPT !.baseline = stats, !.initial_complete = TRUE,
                       !.previous_mean = stats.mean]
        ELSE [c EXCEPT !.baseline = stats]

update_initial_calibration_exact_count(c, v, now) ==
    LET b == c.baseline
        delta == v - b.mean
        variance == b.std_dev * b.std_dev
        new_variance == variance + (delta * delta - variance) \div b.sample_count
        stats == IF b.sample_count = 1
                 THEN [b EXCEPT !.mean = v, !.std_dev = Scale]
                 ELSE [b EXCEPT !.mean = @ + delta \div b.sample_count,
                                !.std_dev = Max(sqrt(new_variance), MinStdDev)]
        complete == /\ now - c.start_time >= c.initial_period
                    /\ stats.sample_count = c.min_samples
    IN  IF complete
        THEN [c EXCEPT !.baseline = stats, !.initial_complete = TRUE,
                       !.previous_mean = stats.mean]
        ELSE [c EXCEPT !.baseline = stats]

update_initial_calibration(c, v, now) ==
    LET b == c.baseline
        delta == v - b.mean
        variance == b.std_dev * b.std_dev
        new_variance == variance + (delta * delta - variance) \div b.sample_count
        stats == IF b.sample_count = 1
                 THEN [b EXCEPT !.mean = v, !.std_dev = Scale]
                 ELSE [b EXCEPT !.mean = @ + delta \div b.sample_count,
                                !.std_dev = Max(sqrt(new_variance), MinStdDev)]
        complete == /\ now - c.start_time >= c.initial_period
                    /\ stats.sample_count >= c.min_samples
    IN  IF complete
        THEN [c EXCEPT !.baseline = stats, !.initial_complete = TRUE,
                       !.previous_mean = stats.mean]
        ELSE [c EXCEPT !.baseline = stats]

update_ema_no_floor(c, v) ==
    LET b == c.baseline
        delta == v - b.mean
        variance == b.std_dev * b.std_dev
        new_variance ==
            ((Scale - c.alpha) * variance + c.alpha * delta * delta) \div Scale
    IN  [c EXCEPT
           !.baseline.mean = ((Scale - c.alpha) * b.mean + c.alpha * v) \div Scale,
           !.baseline.std_dev = IF new_variance < 0 THEN 0
                                ELSE sqrt(new_variance)]

\* the square root of a negative variance (alpha above 1) is NaN, which
\* f32::max(0.1) replaces by 0.1
update_ema(c, v) ==
    LET b == c.baseline
        delta == v - b.mean
        variance == b.std_dev * b.std_dev
        new_variance ==
            ((Scale - c.alpha) * variance + c.alpha * delta * delta) \div Scale
    IN  [c EXCEPT
           !.baseline.mean = ((Scale - c.alpha) * b.mean + c.alpha * v) \div Scale,
           !.baseline.std_dev = IF new_variance < 0 THEN MinStdDev
                                ELSE Max(sqrt(new_variance), MinStdDev)]

adaptive_add_sample_counts_all(c, fear_logit, now) ==
    IF c.frozen THEN [cal |-> c, result |-> "Frozen"]
    ELSE LET counted == [c EXCEPT !.baseline.sample_count = @ + 1] IN
         IF ~is_finite(fear_logit) THEN [cal |-> counted, result |-> "Ok"]
         ELSE IF ~c.initial_complete
         THEN [cal |-> update_initial_calibration(counted, fear_logit[2], now),
               result |-> "Ok"]
         ELSE [cal |-> update_ema(counted, fear_logit[2]), result |-> "Ok"]

adaptive_add_sample_while_frozen(c, fear_logit, now) ==
    IF ~is_finite(fear_logit) THEN [cal |-> c, result |-> "Ok"]
    ELSE LET counted == [c EXCEPT !.baseline.sample_count = @ + 1] IN
         IF ~c.initial_complete
         THEN [cal |-> update_initial_calibration(counted, fear_logit[2], now),
               result |-> IF c.frozen THEN "Frozen" ELSE "Ok"]
         ELSE [cal |-> update_ema(counted, fear_logit[2]),
               result |-> IF c.frozen THEN "Frozen" ELSE "Ok"]

\* AdaptiveCalibrator::add_sample: the calibrator after the call and what
\* the call returned
adaptive_add_sample(c, fear_logit, now) ==
    IF c.frozen THEN [cal |-> c, result |-> "Frozen"]
    ELSE IF ~is_finite(fear_logit) THEN [cal |-> c, result |-> "Ok"]
    ELSE LET counted == [c EXCEPT !.baseline.sample_count = @ + 1] IN
         IF ~c.initial_complete
         THEN [cal |-> update_initial_calibration(counted, fear_logit[2], now),
               result |-> "Ok"]
         ELSE [cal |-> update_ema(counted, fear_logit[2]), result |-> "Ok"]

adaptive_is_calibrated(c) == c.initial_complete

freeze(c) == [c EXCEPT !.frozen = TRUE]

unfreeze_restarts(c) == [c EXCEPT !.frozen = FALSE, !.initial_complete = FALSE]

unfreeze(c) == [c EXCEPT !.frozen = FALSE]

reset_keeps_checkpoint(c, now) ==
    [c EXCEPT !.baseline = BaselineStats_default,
              !.start_time = now,
              !.initial_complete = FALSE,
              !.frozen = FALSE]

reset(c, now) ==
    [c EXCEPT !.baseline = BaselineStats_default,
              !.start_time = now,
              !.initial_complete = FALSE,
              !.frozen = FALSE,
              !.previous_mean = 0]

baseline_stats(c) == c.baseline

Abs(a) == IF a >= 0 THEN a ELSE -a

calculate_drift_keeps_checkpoint(c) ==
    [cal |-> c, drift |-> Abs(c.baseline.mean - c.previous_mean)]

\* AdaptiveCalibrator::calculate_drift: the calibrator after the call and
\* the drift returned
calculate_drift(c) ==
    [cal |-> [c EXCEPT !.previous_mean = c.baseline.mean],
     drift |-> Abs(c.baseline.mean - c.previous_mean)]

\* alpha values given to new and to set_alpha, in units of 1/Scale
AlphaInputs == {0, DefaultAlpha, Scale}

\* AdaptiveCalibrator::set_alpha
set_alpha(c, alpha) ==
    IF alpha <= 0 \/ alpha >= Scale
    THEN [cal |-> c, result |-> "InvalidParameters"]
    ELSE [cal |-> [c EXCEPT !.alpha = alpha], result |-> "Ok"]

progress_samples_only(c, now) ==
    IF c.initial_complete THEN Scale
    ELSE Min((c.baseline.sample_count * Scale) \div c.min_samples, Scale)

\* AdaptiveCalibrator::progress, in units of 1/Scale.  With a zero
\* initial_period time_progress is infinite or NaN, and f32::min returns
\* sample_progress.
progress(c, now) ==
    IF c.initial_complete THEN Scale
    ELSE LET sample_progress ==
                 (c.baseline.sample_count * Scale) \div c.min_samples
         IN  IF c.initial_period = 0 THEN Min(sample_progress, Scale)
             ELSE Min(Min(((now - c.start_time) * Scale) \div c.initial_period,
                          sample_progress), Scale)

\* now is the clock; result is what the last call returned ("none" for a
\* call that returns nothing), non_finite whether it was an add_sample of
\* a non-finite sample
AdaptiveHist_new == [now |-> 0, result |-> "none", non_finite |-> FALSE]

AdaptiveUnchanged ==
    UNCHANGED <<impl, config, state_lock, frame_receiver, forward_pc, outbound, score_out, fear_state, game, emotion_logits, extracted, legacy, face_detector, emotion_session,
                calibrator, state, nsessions, pc, loop_cal, chan,
                start_result, built, delivered, closed_rejected,
                fear_calibrator, cal_hist>>

AdaptiveAddSample ==
    /\ impl = "adaptive"
    /\ \E x \in AdaptiveInputs :
         LET r == adaptive_add_sample(adaptive_calibrator, x, adaptive_hist.now) IN
         /\ r.cal.baseline.sample_count <= MaxSamples
         /\ adaptive_calibrator' = r.cal
         /\ adaptive_hist' = [adaptive_hist EXCEPT
                                 !.result = r.result,
                                 !.non_finite = ~is_finite(x)]
    /\ AdaptiveUnchanged

AdaptiveFreeze ==
    /\ impl = "adaptive"
    /\ adaptive_calibrator' = freeze(adaptive_calibrator)
    /\ adaptive_hist' = [adaptive_hist EXCEPT !.result = "none",
                                              !.non_finite = FALSE]
    /\ AdaptiveUnchanged

AdaptiveUnfreeze ==
    /\ impl = "adaptive"
    /\ adaptive_calibrator' = unfreeze(adaptive_calibrator)
    /\ adaptive_hist' = [adaptive_hist EXCEPT !.result = "none",
                                              !.non_finite = FALSE]
    /\ AdaptiveUnchanged

AdaptiveReset ==
    /\ impl = "adaptive"
    /\ adaptive_calibrator' = reset(adaptive_calibrator, adaptive_hist.now)
    /\ adaptive_hist' = [adaptive_hist EXCEPT !.result = "none",
                                              !.non_finite = FALSE]
    /\ AdaptiveUnchanged

\* the samples a tuned calibrator is fed: the first MaxVaried ones of a
\* calibration period and the ones in EMA mode vary, the others are 0.30
TuningInputs(c) ==
    IF c.baseline.sample_count < MaxVaried \/ c.initial_complete
    THEN AdaptiveInputs
    ELSE AdaptiveInputs \ {finite(50)}

TuningAddSample ==
    /\ impl = "adaptive"
    /\ \E x \in TuningInputs(adaptive_calibrator) :
         LET r == adaptive_add_sample(adaptive_calibrator, x, adaptive_hist.now) IN
         /\ r.cal.baseline.sample_count <= MaxSamples
         /\ adaptive_calibrator' = r.cal
         /\ adaptive_hist' = [adaptive_hist EXCEPT
                                 !.result = r.result,
                                 !.non_finite = ~is_finite(x)]
    /\ AdaptiveUnchanged

SetAlpha ==
    /\ impl = "adaptive"
    /\ \E alpha \in AlphaInputs :
         LET r == set_alpha(adaptive_calibrator, alpha) IN
         /\ adaptive_calibrator' = r.cal
         /\ adaptive_hist' = [adaptive_hist EXCEPT !.result = r.result,
                                                   !.non_finite = FALSE]
    /\ AdaptiveUnchanged

CalculateDrift ==
    /\ impl = "adaptive"
    /\ LET r == calculate_drift(adaptive_calibrator) IN
         /\ adaptive_calibrator' = r.cal
         /\ adaptive_hist' = [adaptive_hist EXCEPT !.result = "none",
                                                   !.non_finite = FALSE]
    /\ AdaptiveUnchanged

\* add_sample on a calibrator that is left to calibrate: past MaxSamples
\* only the call that the elapsed initial period lets complete is made
CalibratingAddSample ==
    /\ impl = "adaptive"
    /\ \E x \in TuningInputs(adaptive_calibrator) :
         LET c == adaptive_calibrator
             r == adaptive_add_sample(c, x, adaptive_hist.now) IN
         /\ \/ r.cal.baseline.sample_count <= MaxSamples
            \/ /\ ~c.initial_complete
               /\ adaptive_hist.now - c.start_time >= c.initial_period
         /\ adaptive_calibrator' = r.cal
         /\ adaptive_hist' = [adaptive_hist EXCEPT
                                 !.result = r.result,
                                 !.non_finite = ~is_finite(x)]
    /\ AdaptiveUnchanged

\* an add_sample call whose sample is finite
AddFiniteSample == CalibratingAddSample /\ ~adaptive_hist'.non_finite

\* time passes
AdaptiveTick ==
    /\ impl = "adaptive"
    /\ adaptive_hist.now < MaxClock
    /\ adaptive_hist' = [adaptive_hist EXCEPT !.now = @ + 1]
    /\ UNCHANGED adaptive_calibrator
    /\ AdaptiveUnchanged

(* ------------------------ fear logit extraction ----------------------- *)

\* the values of one logit
LogitValues == {0, 1}

\* emotion_logits[i] for a Rust index i, counted from 0
index(logits, i) == logits[i + 1]

\* const FEAR_INDEX: usize = 2
FEAR_INDEX == 2

\* FearCalibrator::extract_fear_logit (fear_sensor/src/calibration.rs)
FearCalibrator_extract_fear_logit(logits) == index(logits, FEAR_INDEX)

\* FearScore::extract_fear_logit (core/src/types.rs)
FearScore_extract_fear_logit(logits) == index(logits, FEAR_INDEX)

\* FearFrame::extract_fear_logit (core/src/types.rs)
core_FearFrame_extract_fear_logit(logits) == index(logits, FEAR_INDEX)

FearFrame_extract_fear_logit_happy(logits) == index(logits, 3)

\* FearFrame::extract_fear_logit (spectre_sensor/src/types.rs)
FearFrame_extract_fear_logit(logits) == index(logits, FEAR_INDEX)

\* EmotionSensor::process_frame: let fear_logit = emotion_logits[2]
process_frame_fear_logit(logits) == index(logits, 2)

ExtractPaths ==
    {"FearCalibrator", "FearScore", "core::FearFrame", "FearFrame",
     "process_frame"}

extract_fear_logit(p, logits) ==
    CASE p = "FearCalibrator" -> FearCalibrator_extract_fear_logit(logits)
      [] p = "FearScore" -> FearScore_extract_fear_logit(logits)
      [] p = "core::FearFrame" -> core_FearFrame_extract_fear_logit(logits)
      [] p = "FearFrame" -> FearFrame_extract_fear_logit(logits)
      [] p = "process_frame" -> process_frame_fear_logit(logits)

\* one extraction path reads the fear logit of the array
Extract(p) ==
    /\ impl = "extract"
    /\ extracted[p] = None
    /\ extracted' = [extracted EXCEPT
                        ![p] = Some(extract_fear_logit(p, emotion_logits))]
    /\ UNCHANGED <<impl, config, state_lock, frame_receiver, forward_pc, outbound, score_out, fear_state, game, emotion_logits, adaptive_calibrator,
                   adaptive_hist, fear_calibrator, cal_hist, legacy,
                   face_detector, emotion_session, calibrator, state,
                   nsessions, pc, loop_cal, chan, start_result, built,
                   delivered, closed_rejected>>

(* --------------------------- normalize_fear --------------------------- *)
(* A score is an f32 on the grid of 1/(Scale * Scale), or NaN.            *)

\* an f32 literal given in ten-thousandths, on the score grid
score(tenthousandths) == (tenthousandths * Scale * Scale) \div 10000

\* 1 / (1 + e^-k) for k = 0 .. 8, in ten-thousandths
SigmoidTable == <<5000, 7311, 8808, 9526, 9820, 9933, 9975, 9991, 9997>>

\* 1.0 / (1.0 + (-z_score).exp()) for z_score >= 0 in units of 1/Scale:
\* the table, interpolated between whole z
sigmoid_upper(z) ==
    LET k == z \div Scale
        f == z % Scale
    IN  IF k >= 8 THEN 10000
        ELSE SigmoidTable[k + 1]
               + ((SigmoidTable[k + 2] - SigmoidTable[k + 1]) * f) \div Scale

sigmoid(z) == IF z >= 0 THEN sigmoid_upper(z) ELSE 10000 - sigmoid_upper(-z)

\* f32::clamp(0.0, 1.0) of a finite value
clamp(v) == Max(0, Min(10000, v))

\* the calibrated branch: z-score, sigmoid, clamp.  A NaN logit makes the
\* z-score, the sigmoid and the clamped value NaN; an infinite logit makes
\* the sigmoid 1.0 or 0.0.
normalize_calibrated(mean, std_dev, logit) ==
    IF logit = NaN THEN NaN
    ELSE IF logit = Infinity THEN finite(score(10000))
    ELSE IF logit = NegInfinity THEN finite(score(0))
    ELSE finite(score(clamp(sigmoid(((logit[2] - mean) * Scale) \div std_dev))))

normalize_fear_half_before(c, raw_fear_logit) ==
    IF ~c.calibrated THEN finite(score(5000))
    ELSE normalize_calibrated(c.mean, c.std_dev, raw_fear_logit)

\* FearCalibrator::normalize_fear
normalize_fear(c, raw_fear_logit) ==
    IF ~c.calibrated THEN finite(score(3000))
    ELSE normalize_calibrated(c.mean, c.std_dev, raw_fear_logit)

\* AdaptiveCalibrator::normalize_fear
adaptive_normalize_fear(c, fear_logit) ==
    IF ~adaptive_is_calibrated(c) THEN finite(score(3000))
    ELSE normalize_calibrated(c.baseline.mean, c.baseline.std_dev, fear_logit)

calibration_progress_of_next(c) ==
    Min((Len(c.baseline_samples) * Scale) \div (c.target_samples + 1), Scale)

\* FearCalibrator::calibration_progress, in units of 1/Scale.  With
\* target_samples = 0 the quotient is NaN or infinite and f32::min gives 1.0.
calibration_progress(c) ==
    IF c.target_samples = 0 THEN Scale
    ELSE Min((Len(c.baseline_samples) * Scale) \div c.target_samples, Scale)

\* logits given to normalize_fear
NormalizeInputs ==
    {finite(v) : v \in {0, 29, 30, 31, 50, 80}} \cup {NaN, Infinity, NegInfinity}

(* ------------------------------ the game ------------------------------ *)
(* crates/core/src/types.rs (FearBucket), crates/game/src/resources.rs,   *)
(* crates/game/src/systems/mod.rs.  A frame is its fear_score.            *)

\* a comparison with NaN is false; -inf is below and +inf above every bound
less_than(s, bound) ==
    \/ s = NegInfinity
    \/ is_finite(s) /\ s[2] < bound

from_score_inclusive(s) ==
    IF less_than(s, score(3300) + 1) THEN "Low"
    ELSE IF less_than(s, score(6600)) THEN "Medium"
    ELSE "High"

\* FearBucket::from_score (crates/core/src/types.rs)
from_score(s) ==
    IF less_than(s, score(3300)) THEN "Low"
    ELSE IF less_than(s, score(6600)) THEN "Medium"
    ELSE "High"

\* FearBucket::from_score (spectre_sensor/src/types.rs)
sensor_from_score(s) ==
    IF less_than(s, score(3300)) THEN "Low"
    ELSE IF less_than(s, score(6600)) THEN "Medium"
    ELSE "High"

\* FearBucket::distortion_intensity, in units of 1/Scale
distortion_intensity(bucket) ==
    CASE bucket = "Low" -> Scale \div 10
      [] bucket = "Medium" -> Scale \div 2
      [] bucket = "High" -> Scale

\* impl Default for FearState
FearState_default ==
    [current_fear |-> finite(score(3000)),
     current_bucket |-> "Low",
     previous_bucket |-> "Low",
     distortion_intensity |-> Scale \div 10,
     terrain_needs_rebuild |-> FALSE]

\* FearState::update_from_frame
update_from_frame(fs, frame) ==
    LET bucket == from_score(frame) IN
    [fs EXCEPT !.current_fear = frame,
               !.previous_bucket = fs.current_bucket,
               !.current_bucket = bucket,
               !.distortion_intensity = distortion_intensity(bucket),
               !.terrain_needs_rebuild = @ \/ bucket # fs.current_bucket]

\* FearState::terrain_rebuilt
terrain_rebuilt(fs) == [fs EXCEPT !.terrain_needs_rebuild = FALSE]

\* FearState::needs_terrain_rebuild
needs_terrain_rebuild(fs) == fs.terrain_needs_rebuild

\* fear scores of the frames the sensor sends
GameScores ==
    {finite(score(v)) : v \in {0, 3299, 3300, 6599, 6600, 10000}} \cup {NaN}

Game_new ==
    [receiver |-> <<>>, next |-> "update_fear_system", received |-> 0,
     transitions |-> 0, rebuilds |-> 0]

\* for frame in frames { fear_state.update_from_frame(frame) }
RECURSIVE UpdateFromFrames(_, _)
UpdateFromFrames(fs, frames) ==
    IF frames = <<>> THEN fs
    ELSE UpdateFromFrames(update_from_frame(fs, Head(frames)), Tail(frames))

\* bucket transitions in a frame sequence received with bucket b current
RECURSIVE Transitions(_, _)
Transitions(b, frames) ==
    IF frames = <<>> THEN 0
    ELSE (IF from_score(Head(frames)) # b THEN 1 ELSE 0)
           + Transitions(from_score(Head(frames)), Tail(frames))

GameUnchanged ==
    UNCHANGED <<impl, config, state_lock, frame_receiver, forward_pc, outbound, score_out, emotion_logits, extracted, adaptive_calibrator,
                adaptive_hist, fear_calibrator, cal_hist, legacy,
                face_detector, emotion_session, calibrator, state,
                nsessions, pc, loop_cal, chan, start_result, built,
                delivered, closed_rejected>>

\* the sensor's try_send puts a frame into the game's channel
GameSend ==
    /\ impl = "game"
    /\ Len(game.receiver) < OnnxChannelCapacity
    /\ game.received + Len(game.receiver) < MaxGameFrames
    /\ \E s \in GameScores :
         game' = [game EXCEPT !.receiver = Append(@, s)]
    /\ UNCHANGED fear_state
    /\ GameUnchanged

\* update_fear_system: drain the receiver, then update_from_frame for each
GameUpdateFear ==
    /\ impl = "game"
    /\ game.next = "update_fear_system"
    /\ fear_state' = UpdateFromFrames(fear_state, game.receiver)
    /\ game' = [game EXCEPT
                  !.receiver = <<>>,
                  !.next = "update_terrain_system",
                  !.received = @ + Len(game.receiver),
                  !.transitions =
                      @ + Transitions(fear_state.current_bucket, game.receiver)]
    /\ GameUnchanged

\* update_terrain_system, which runs after update_fear_system
GameUpdateTerrain ==
    /\ impl = "game"
    /\ game.next = "update_terrain_system"
    /\ fear_state' = IF needs_terrain_rebuild(fear_state)
                     THEN terrain_rebuilt(fear_state) ELSE fear_state
    /\ game' = [game EXCEPT
                  !.next = "update_fear_system",
                  !.rebuilds = IF needs_terrain_rebuild(fear_state)
                               THEN @ + 1 ELSE @]
    /\ GameUnchanged

(* ------------------------- scores of the frames ----------------------- *)
(* What one producer tick computes from the fear logit of its frame:      *)
(* sensor.rs 297-310 (EmotionSensor::process_frame) and onnx_sensor.rs    *)
(* 311-330 (OnnxFearSensor::start).                                       *)

\* fear logits of the model's raw (non-softmax) output, in units of 1/Scale
RawLogits == {-50, 30, 80, 250}

\* OnnxFearSensor: add_sample while not calibrated, then
\* FearScore::new_calibrated(normalize_fear(..)) or
\* FearScore::new_uncalibrated(fear_logit, ..)
onnx_score(c, fear_logit) ==
    LET r == add_sample(c, fear_logit)
        cal == IF ~is_calibrated(c) THEN r.cal ELSE c
    IN  [cal |-> cal,
         computed |-> IF ~is_calibrated(c) THEN r.computed ELSE 0,
         frame |-> IF is_calibrated(cal)
                   THEN [value |-> normalize_fear(cal, finite(fear_logit)),
                         calibrated |-> TRUE]
                   ELSE [value |-> finite(fear_logit * Scale),
                         calibrated |-> FALSE]]

\* EmotionSensor::process_frame: calibrator.add_sample(fear_logit)?, then
\* FearFrame::new(calibrator.normalize_fear(fear_logit), ..)
emotion_score(c, fear_logit, now) ==
    LET r == adaptive_add_sample(c, fear_logit, now) IN
    [cal |-> r.cal,
     result |-> r.result,
     frame |-> IF r.result = "Ok"
               THEN Some([value |-> adaptive_normalize_fear(r.cal, fear_logit),
                          calibrated |-> adaptive_is_calibrated(r.cal)])
               ELSE None]

ScoreUnchanged ==
    UNCHANGED <<impl, config, state_lock, frame_receiver, forward_pc, outbound, emotion_logits, extracted, fear_state, game,
                legacy, face_detector, emotion_session, calibrator, state,
                nsessions, pc, loop_cal, chan, start_result, built,
                delivered, closed_rejected>>

\* a tick of the OnnxFearSensor task with a frame captured
OnnxScoreTick ==
    /\ impl = "onnx"
    /\ cal_hist.calls < MaxCalls
    /\ \E fear_logit \in RawLogits :
         LET r == onnx_score(fear_calibrator, fear_logit) IN
         /\ fear_calibrator' = r.cal
         /\ cal_hist' = [cal_hist EXCEPT !.calls = @ + 1,
                                         !.computed = @ + r.computed]
         /\ score_out' = Some(r.frame)
    /\ UNCHANGED <<adaptive_calibrator, adaptive_hist>>
    /\ ScoreUnchanged

\* a tick of processing_loop in which process_frame reached the calibrator
EmotionScoreTick ==
    /\ impl = "emotion"
    /\ \E fear_logit \in AdaptiveInputs :
         LET r == emotion_score(adaptive_calibrator, fear_logit,
                                adaptive_hist.now) IN
         /\ r.cal.baseline.sample_count <= MaxSamples
         /\ adaptive_calibrator' = r.cal
         /\ adaptive_hist' = [adaptive_hist EXCEPT
                                 !.result = r.result,
                                 !.non_finite = ~is_finite(fear_logit)]
         /\ score_out' = IF is_some(r.frame) THEN r.frame ELSE score_out
    /\ UNCHANGED <<fear_calibrator, cal_hist>>
    /\ ScoreUnchanged

(* --------------------------- specification ---------------------------- *)

\* EmotionSensor::new(config), followed through the sessions in S
SensorInit(S) ==
    /\ face_detector = FALSE
    /\ emotion_session = FALSE
    /\ calibrator = None
    /\ state = SensorState_default
    /\ nsessions = 0
    /\ pc = [s \in S |-> "none"]
    /\ loop_cal = [s \in S |-> AdaptiveCalibrator_with_defaults]
    /\ chan = [s \in S |-> NoChannel]
    /\ start_result = "none"
    /\ built = [s \in S |-> 0]
    /\ delivered = [s \in S |-> <<>>]
    /\ closed_rejected = 0
    /\ legacy = LegacySensor_new
    /\ emotion_logits = [i \in 1..7 |-> 0]
    /\ extracted = [p \in ExtractPaths |-> None]
    /\ fear_state = FearState_default
    /\ game = Game_new
    /\ score_out = None
    /\ state_lock = 0
    /\ frame_receiver = FALSE
    /\ forward_pc = "none"
    /\ outbound = NoChannel

\* the sensor object's first session
Init ==
    /\ impl \in {"emotion"} \cup Legacy
    /\ config \in [channel_buffer_size : 1..MaxCapacity]
    /\ SensorInit({1})
    /\ fear_calibrator = FearCalibrator_new(0, 1)
    /\ cal_hist = CalHist_new
    /\ adaptive_calibrator = AdaptiveCalibrator_new(0, DefaultAlpha, 0)
    /\ adaptive_hist = AdaptiveHist_new

Next ==
    \/ Initialize
    \/ Start
    \/ Stop
    \/ ControlCalibration
    \/ \E s \in Sessions : LoopStep(s)
    \/ LegacyInitialize
    \/ LegacyStart
    \/ LegacyStop
    \/ \E s \in Sessions : LegacyLoopStep(s)
    \/ \E s \in Sessions : Recv(s)
    \/ \E s \in Sessions : update_fear_system(s)
    \/ \E s \in Sessions : DropReceiver(s)

Spec == Init /\ [][Next]_vars

\* tokio runs a spawned task whenever it can take a step, and its sleeps end
FairSpec == Spec /\ WF_vars(LoopStep(1)) /\ WF_vars(LegacyLoopStep(1))

\* a camera read that succeeds and a tick that builds a frame
CaptureOk(s) == LoopTop(s) /\ pc'[s] = "process"

BuildFrame(s) == LoopProcessFrame(s) /\ built'[s] = built[s] + 1

\* FairSpec with a co-operative environment: a camera that keeps failing
\* does not do so for ever, nor do face detection and inference
CooperativeSpec ==
    /\ FairSpec
    /\ SF_vars(CaptureOk(1))
    /\ SF_vars(BuildFrame(1))
    /\ SF_vars(LegacyBuildFrame(1))

\* one EmotionSensor object over two sessions: initialize and start may be
\* called again after a start, each successful start spawning a new task
\* that shares state with the ones before it
LifecycleInit ==
    /\ impl = "emotion"
    /\ config = [channel_buffer_size |-> 1]
    /\ SensorInit({1, 2})
    /\ fear_calibrator = FearCalibrator_new(0, 1)
    /\ cal_hist = CalHist_new
    /\ adaptive_calibrator = AdaptiveCalibrator_new(0, DefaultAlpha, 0)
    /\ adaptive_hist = AdaptiveHist_new

LifecycleNext ==
    \/ Initialize
    \/ Start
    \/ Stop
    \/ ControlCalibration
    \/ reset_calibration
    \/ \E s \in Sessions : LoopStep(s)
    \/ \E s \in Sessions : DropReceiver(s)

LifecycleSpec == LifecycleInit /\ [][LifecycleNext]_vars

\* an EmotionSensor built with the configuration from_env returns
FromEnvInit ==
    /\ impl = "emotion"
    /\ config \in from_env
    /\ SensorInit({1})
    /\ fear_calibrator = FearCalibrator_new(0, 1)
    /\ cal_hist = CalHist_new
    /\ adaptive_calibrator = AdaptiveCalibrator_new(0, DefaultAlpha, 0)
    /\ adaptive_hist = AdaptiveHist_new

FromEnvNext ==
    \/ Initialize
    \/ StartFromEnv
    \/ Stop
    \/ \E s \in Sessions : LoopStepFromEnv(s)
    \/ \E s \in Sessions : Recv(s)

FromEnvSpec == FromEnvInit /\ [][FromEnvNext]_vars

\* the EmotionSensor with its loop cut at the lock operations
MutexInit ==
    /\ impl = "emotion"
    /\ config \in [channel_buffer_size : 1..MaxCapacity]
    /\ SensorInit({1})
    /\ fear_calibrator = FearCalibrator_new(0, 1)
    /\ cal_hist = CalHist_new
    /\ adaptive_calibrator = AdaptiveCalibrator_new(0, DefaultAlpha, 0)
    /\ adaptive_hist = AdaptiveHist_new

MutexNext ==
    \/ Initialize
    \/ MutexStart
    \/ MutexStop
    \/ ControlCalibration
    \/ \E s \in Sessions : MutexLoopStep(s)
    \/ \E s \in Sessions : Recv(s)
    \/ \E s \in Sessions : DropReceiver(s)

MutexSpec == MutexInit /\ [][MutexNext]_vars

\* an EmotionSensor behind the compat wrapper or the gRPC service
ForwardInit ==
    /\ impl = "emotion"
    /\ config \in [channel_buffer_size : 1..MaxCapacity]
    /\ SensorInit({1})
    /\ fear_calibrator = FearCalibrator_new(0, 1)
    /\ cal_hist = CalHist_new
    /\ adaptive_calibrator = AdaptiveCalibrator_new(0, DefaultAlpha, 0)
    /\ adaptive_hist = AdaptiveHist_new

ForwardNext ==
    \/ Initialize
    \/ YuNetStart
    \/ YuNetStop
    \/ StreamEvents
    \/ \E s \in Sessions : LoopStep(s)
    \/ \E s \in Sessions : ConvertStep(s)
    \/ \E s \in Sessions : BridgeStep(s)
    \/ ClientRecv
    \/ ClientDrop

ForwardSpec == ForwardInit /\ [][ForwardNext]_vars

\* the spawned tasks run whenever they can take a step; the camera does not
\* fail for ever, nor do face detection and inference
ForwardFairSpec ==
    /\ ForwardSpec
    /\ WF_vars(LoopStep(1))
    /\ SF_vars(CaptureOk(1))
    /\ SF_vars(BuildFrame(1))
    /\ WF_vars(ConvertStep(1))
    /\ WF_vars(BridgeStep(1))

\* a batch FearCalibrator on its own: new(calibration_duration, fps), then
\* add_sample calls; no sensor is started
BatchInit ==
    /\ impl = "calibrator"
    /\ config = [channel_buffer_size |-> 1]
    /\ SensorInit({1})
    /\ \E calibration_duration \in 0..MaxDuration, fps \in 1..MaxFps :
           /\ fear_calibrator = FearCalibrator_new(calibration_duration, fps)
           /\ cal_hist = [CalHist_new EXCEPT
                            !.calibration_duration = calibration_duration,
                            !.fps = fps]
    /\ adaptive_calibrator = AdaptiveCalibrator_new(0, DefaultAlpha, 0)
    /\ adaptive_hist = AdaptiveHist_new

BatchNext == AddSample

BatchSpec == BatchInit /\ [][BatchNext]_vars

\* an AdaptiveCalibrator on its own: new(initial_period, 0.05), then calls
\* of its API as time passes; no sensor is started
AdaptiveInit ==
    /\ impl = "adaptive"
    /\ config = [channel_buffer_size |-> 1]
    /\ SensorInit({1})
    /\ fear_calibrator = FearCalibrator_new(0, 1)
    /\ cal_hist = CalHist_new
    /\ \E initial_period \in 0..MaxPeriod :
           adaptive_calibrator
               = AdaptiveCalibrator_new(initial_period, DefaultAlpha, 0)
    /\ adaptive_hist = AdaptiveHist_new

AdaptiveNext ==
    \/ AdaptiveAddSample
    \/ AdaptiveFreeze
    \/ AdaptiveUnfreeze
    \/ AdaptiveReset
    \/ AdaptiveTick

AdaptiveSpec == AdaptiveInit /\ [][AdaptiveNext]_vars

\* an AdaptiveCalibrator that is never frozen and never reset, with a clock
\* that keeps advancing and finite samples that keep being added
CalibratingNext ==
    \/ CalibratingAddSample
    \/ AdaptiveTick

CalibratingSpec ==
    /\ AdaptiveInit
    /\ [][CalibratingNext]_vars
    /\ WF_vars(AdaptiveTick)
    /\ WF_vars(AddFiniteSample)

\* the extraction paths applied to one logits array
ExtractInit ==
    /\ impl = "extract"
    /\ config = [channel_buffer_size |-> 1]
    /\ face_detector = FALSE
    /\ emotion_session = FALSE
    /\ calibrator = None
    /\ state = SensorState_default
    /\ nsessions = 0
    /\ pc = [s \in {1} |-> "none"]
    /\ loop_cal = [s \in {1} |-> AdaptiveCalibrator_with_defaults]
    /\ chan = [s \in {1} |-> NoChannel]
    /\ start_result = "none"
    /\ built = [s \in {1} |-> 0]
    /\ delivered = [s \in {1} |-> <<>>]
    /\ closed_rejected = 0
    /\ legacy = LegacySensor_new
    /\ fear_calibrator = FearCalibrator_new(0, 1)
    /\ cal_hist = CalHist_new
    /\ adaptive_calibrator = AdaptiveCalibrator_new(0, DefaultAlpha, 0)
    /\ adaptive_hist = AdaptiveHist_new
    /\ emotion_logits \in [1..7 -> LogitValues]
    /\ extracted = [p \in ExtractPaths |-> None]
    /\ fear_state = FearState_default
    /\ game = Game_new
    /\ score_out = None
    /\ state_lock = 0
    /\ frame_receiver = FALSE
    /\ forward_pc = "none"
    /\ outbound = NoChannel

ExtractNext == \E p \in ExtractPaths : Extract(p)

ExtractSpec == ExtractInit /\ [][ExtractNext]_vars

\* an AdaptiveCalibrator built by new(Duration::ZERO, alpha) and driven
\* through its whole API, tuning calls included; the clock stands still
TuningInit ==
    /\ impl = "adaptive"
    /\ config = [channel_buffer_size |-> 1]
    /\ SensorInit({1})
    /\ fear_calibrator = FearCalibrator_new(0, 1)
    /\ cal_hist = CalHist_new
    /\ \E alpha \in AlphaInputs :
           adaptive_calibrator = AdaptiveCalibrator_new(0, alpha, 0)
    /\ adaptive_hist = AdaptiveHist_new

TuningNext ==
    \/ TuningAddSample
    \/ AdaptiveFreeze
    \/ AdaptiveUnfreeze
    \/ AdaptiveReset
    \/ SetAlpha
    \/ CalculateDrift

TuningSpec == TuningInit /\ [][TuningNext]_vars

\* the game's Update schedule, fed by a sensor
GameInit ==
    /\ impl = "game"
    /\ config = [channel_buffer_size |-> 1]
    /\ SensorInit({1})
    /\ fear_calibrator = FearCalibrator_new(0, 1)
    /\ cal_hist = CalHist_new
    /\ adaptive_calibrator = AdaptiveCalibrator_new(0, DefaultAlpha, 0)
    /\ adaptive_hist = AdaptiveHist_new

GameNext ==
    \/ GameSend
    \/ GameUpdateFear
    \/ GameUpdateTerrain

GameSpec == GameInit /\ [][GameNext]_vars

\* the scores a started sensor produces: OnnxFearSensor with the
\* FearCalibrator of initialize(), EmotionSensor with its AdaptiveCalibrator
ScoreInit ==
    /\ impl \in {"emotion", "onnx"}
    /\ config = [channel_buffer_size |-> 1]
    /\ SensorInit({1})
    /\ \E calibration_duration \in 0..MaxDuration, fps \in 1..MaxFps :
           /\ fear_calibrator
                 = IF impl = "onnx"
                   THEN FearCalibrator_new(calibration_duration, fps)
                   ELSE FearCalibrator_new(0, 1)
           /\ cal_hist
                 = IF impl = "onnx"
                   THEN [CalHist_new EXCEPT
                           !.calibration_duration = calibration_duration,
                           !.fps = fps]
                   ELSE CalHist_new
    /\ adaptive_calibrator = AdaptiveCalibrator_new(0, DefaultAlpha, 0)
    /\ adaptive_hist = AdaptiveHist_new

ScoreNext ==
    \/ OnnxScoreTick
    \/ EmotionScoreTick

ScoreSpec == ScoreInit /\ [][ScoreNext]_vars

\* either calibrator variant on its own
CalibratorInit == BatchInit \/ AdaptiveInit

CalibratorNext == BatchNext \/ AdaptiveNext

CalibratorSpec == CalibratorInit /\ [][CalibratorNext]_vars

(* ------------------------------ claims -------------------------------- *)

TotalDelivered == SumOver([s \in Sessions |-> Len(delivered[s])], Sessions)

TotalQueued == SumOver([s \in Sessions |-> Len(chan[s].queue)], Sessions)

Produced(s) == [i \in 1..built[s] |-> FearFrame_new(i)]

RECURSIVE IsSubseq(_, _)
IsSubseq(a, b) ==
    IF a = <<>> THEN TRUE
    ELSE IF b = <<>> THEN FALSE
    ELSE IF Head(a) = Head(b) THEN IsSubseq(Tail(a), Tail(b))
    ELSE IsSubseq(a, Tail(b))

LoopAlive == {"top", "retry_sleep", "process", "pace_sleep", "exit"}

C2_DroppedIsBuiltMinusDelivered ==
    impl = "emotion" =>
        state.metrics.dropped_frames = TotalBuilt - TotalDelivered

\* C2 as amended: dropped_frames = frames built - frames delivered - frames
\* still held in a channel buffer (its receiver open or not) - frames whose
\* try_send returned Closed.
C2_DroppedAccounting ==
    impl = "emotion" =>
        state.metrics.dropped_frames
            = TotalBuilt - TotalDelivered - TotalQueued - closed_rejected

C2_Witness ==
    /\ state.metrics.dropped_frames >= 1
    /\ TotalDelivered >= 1
    /\ TotalQueued >= 1

\* C3: a channel created by EmotionSensor::start never holds more than
\* channel_buffer_size frames, and the channel of OnnxFearSensor::start
\* never more than the 2 it is created with.
C3_BufferedAtMostCapacity ==
    \A s \in Sessions :
        /\ impl = "emotion" /\ pc[s] # "none"
             => Len(chan[s].queue) <= config.channel_buffer_size
        /\ impl = "onnx" => Len(chan[s].queue) <= OnnxChannelCapacity

C3_Witness ==
    \E s \in Sessions :
        /\ impl = "emotion"
        /\ Len(chan[s].queue) = config.channel_buffer_size
        /\ state.metrics.dropped_frames >= 1
        /\ Len(delivered[s]) = 0

\* C4: what a consumer has received is a subsequence of what the producer
\* built, in production order, each frame at most once.
C4_DeliveredInProductionOrder ==
    \A s \in Sessions : IsSubseq(delivered[s], Produced(s))

C4_Witness ==
    \E s \in Sessions :
        /\ Len(delivered[s]) >= 2
        /\ delivered[s][2] > delivered[s][1] + 1

\* C5: while running stays false after a stop, a loop that reaches the top
\* of an iteration (from a tick, the pacing sleep or the capture retry
\* sleep) leaves it only for its exit and starts no new tick; only a
\* successful start makes running true again; and the loop does end.
C5_StopObservedAtTop ==
    /\ [][/\ (~state.running /\ state'.running) => nsessions' = nsessions + 1
          /\ (~state.running /\ ~state'.running) =>
                \A s \in Sessions :
                    /\ pc[s] # "process" => pc'[s] # "process"
                    /\ (pc[s] = "top" /\ pc'[s] # "top") => pc'[s] = "exit"]_vars
    /\ [](~state.running /\ pc[1] \in LoopAlive
            => <>(state.running \/ pc[1] = "done"))

C5_Witness ==
    \E s \in Sessions :
        /\ ~state.running
        /\ pc[s] = "retry_sleep"
        /\ built[s] >= 1

\* C6 as claimed: once every receiver of the frame channel is dropped, the
\* processing loop (its camera open, and frames still to come) eventually
\* exits and running becomes false.  The loop learns of the closed channel
\* only from a try_send, so a loop that builds no frame (its calibrator
\* frozen before start) never does.
C6_ClosedChannelEndsLoop ==
    [](is_closed(chan[1]) /\ pc[1] \in LoopAlive /\ TotalBuilt < MaxFrames
        => <>(pc[1] = "done" /\ ~state.running))

LegacyAlive == {"l_camera", "l_tick", "l_retry_sleep", "l_pace_sleep"}

C8_StartNotInitializedRunningFalse ==
    [][Start /\ StartNotInitialized
        => /\ start_result' = "NotInitialized"
           /\ UNCHANGED <<state, pc, chan, nsessions, loop_cal>>
           /\ ~state'.running]_vars

\* C8 as amended: a start without handles returns NotInitialized, spawns
\* nothing, creates no channel and leaves the snapshot unchanged; running
\* is false when no session was ever started, and keeps the value it has
\* when an earlier start consumed the handles.
C8_StartNotInitializedNoEffect ==
    [][Start /\ StartNotInitialized
        => /\ start_result' = "NotInitialized"
           /\ UNCHANGED <<state, pc, chan, nsessions, loop_cal>>
           /\ nsessions = 0 => ~state'.running]_vars

C8_Witness ==
    /\ start_result = "NotInitialized"
    /\ nsessions = 1
    /\ state.running

\* C9: a batch FearCalibrator with target_samples T >= 1 is not calibrated
\* while fewer than T add_sample calls were made, is calibrated from the
\* T-th call on, never goes back, and has its baseline (mean, std_dev)
\* computed exactly once, in that T-th call.
C9_CalibratedAtTargetOnce ==
    /\ [](fear_calibrator.target_samples >= 1 =>
            /\ is_calibrated(fear_calibrator)
                 <=> cal_hist.calls >= fear_calibrator.target_samples
            /\ cal_hist.computed = IF is_calibrated(fear_calibrator) THEN 1 ELSE 0)
    /\ [][is_calibrated(fear_calibrator) =>
            /\ is_calibrated(fear_calibrator')
            /\ fear_calibrator'.mean = fear_calibrator.mean
            /\ fear_calibrator'.std_dev = fear_calibrator.std_dev]_vars

C9_Witness ==
    /\ fear_calibrator.target_samples >= 2
    /\ is_calibrated(fear_calibrator)
    /\ cal_hist.calls = fear_calibrator.target_samples
    /\ fear_calibrator.mean # 0
    /\ fear_calibrator.std_dev # Scale

\* C10: an add_sample call on a calibrated FearCalibrator returns Ok and
\* leaves mean, std_dev, the sample buffer (so the progress) and the
\* calibrated flag as they were.
C10_CalibratedIgnoresSamples ==
    [][(is_calibrated(fear_calibrator) /\ cal_hist'.calls = cal_hist.calls + 1)
        => /\ cal_hist'.result = "Ok"
           /\ fear_calibrator' = fear_calibrator]_vars

C10_Witness ==
    /\ is_calibrated(fear_calibrator)
    /\ fear_calibrator.target_samples >= 1
    /\ cal_hist.calls > Len(fear_calibrator.baseline_samples)
    /\ cal_hist.result = "Ok"

\* C11 as claimed: for a positive duration and fps, new() sets
\* target_samples to duration x fps rounded to the nearest integer (a
\* fractional part of one half rounds up).
C11_TargetSamplesRounded ==
    cal_hist.calibration_duration >= 1 =>
        fear_calibrator.target_samples
            = (cal_hist.calibration_duration * cal_hist.fps + 1) \div 2

\* C12 as claimed: no FearCalibrator with target_samples = 0 is reachable.
C12_TargetSamplesAtLeastOne ==
    impl = "calibrator" => fear_calibrator.target_samples >= 1

\* C13: whenever a calibrator of either variant is not calibrated (fresh,
\* partly fed, frozen before completion, after a reset), normalize_fear
\* returns exactly 0.3 for every logit; a calibrator that was given no
\* sample is not calibrated.
C13_NeutralBeforeCalibration ==
    /\ ~is_calibrated(fear_calibrator) =>
          \A x \in NormalizeInputs :
              normalize_fear(fear_calibrator, x) = finite(score(3000))
    /\ ~adaptive_is_calibrated(adaptive_calibrator) =>
          \A x \in NormalizeInputs :
              adaptive_normalize_fear(adaptive_calibrator, x) = finite(score(3000))
    /\ fear_calibrator.baseline_samples = <<>> => ~is_calibrated(fear_calibrator)
    /\ adaptive_calibrator.baseline.sample_count = 0
          => ~adaptive_is_calibrated(adaptive_calibrator)

C13_Witness ==
    /\ impl = "adaptive"
    /\ adaptive_calibrator.frozen
    /\ adaptive_calibrator.baseline.sample_count >= MinSamples
    /\ ~adaptive_is_calibrated(adaptive_calibrator)
    /\ adaptive_normalize_fear(adaptive_calibrator, finite(80)) = finite(score(3000))

\* C14: the batch calibrator's calibration_progress never decreases, never
\* exceeds 1.0, equals min(samples / target, 1.0) and is exactly 1.0 once
\* the calibrator is calibrated.
C14_ProgressMonotoneAndCapped ==
    /\ [][calibration_progress(fear_calibrator')
            >= calibration_progress(fear_calibrator)]_vars
    /\ [](LET p == calibration_progress(fear_calibrator)
              n == Len(fear_calibrator.baseline_samples)
              T == fear_calibrator.target_samples
          IN  /\ p >= 0 /\ p <= Scale
              /\ (T >= 1 /\ n < T) =>
                    (p * T <= n * Scale /\ n * Scale < (p + 1) * T)
              /\ n >= T => p = Scale
              /\ is_calibrated(fear_calibrator) => p = Scale)

C14_Witness ==
    /\ impl = "calibrator"
    /\ fear_calibrator.target_samples >= 3
    /\ is_calibrated(fear_calibrator)
    /\ cal_hist.calls > fear_calibrator.target_samples
    /\ calibration_progress(fear_calibrator) = Scale

\* C15: a batch calibrator that was fed target_samples samples all equal
\* to v has, after calibration, mean = v and std_dev = 1.0 (the floor below
\* 0.01 replaces the zero deviation), and normalize_fear(v) = 0.5.
C15_IdenticalSamplesBaseline ==
    LET c == fear_calibrator
        n == Len(c.baseline_samples)
    IN  (/\ is_calibrated(c)
         /\ \A i \in 1..n : c.baseline_samples[i] = c.baseline_samples[1])
        => /\ c.mean = c.baseline_samples[1]
           /\ c.std_dev = Scale
           /\ normalize_fear(c, finite(c.baseline_samples[1]))
                 = finite(score(5000))

C15_Witness ==
    /\ impl = "calibrator"
    /\ is_calibrated(fear_calibrator)
    /\ fear_calibrator.target_samples >= 3
    /\ Len(fear_calibrator.baseline_samples) = fear_calibrator.target_samples
    /\ \A i \in 1..Len(fear_calibrator.baseline_samples) :
          fear_calibrator.baseline_samples[i] = 80
    /\ fear_calibrator.mean = 80
    /\ fear_calibrator.std_dev = Scale

\* the claimed shape of normalize_fear for a calibrated baseline: every
\* result in [0, 1], non-decreasing in the logit, 0.5 at the mean, above
\* 0.5 above the mean and below 0.5 below it
in_unit_interval(s) == s[1] = "finite" /\ 0 <= s[2] /\ s[2] <= score(10000)

SigmoidShaped(mean, std_dev, inputs) ==
    /\ \A x \in inputs : in_unit_interval(normalize_calibrated(mean, std_dev, x))
    /\ \A x, y \in {i \in inputs : is_finite(i)} :
          x[2] <= y[2] =>
              normalize_calibrated(mean, std_dev, x)[2]
                  <= normalize_calibrated(mean, std_dev, y)[2]
    /\ normalize_calibrated(mean, std_dev, finite(mean)) = finite(score(5000))
    /\ \A x \in {i \in inputs : is_finite(i)} :
          /\ x[2] > mean => normalize_calibrated(mean, std_dev, x)[2] > score(5000)
          /\ x[2] < mean => normalize_calibrated(mean, std_dev, x)[2] < score(5000)

\* C16 as claimed: for any calibrated calibrator, batch or adaptive,
\* normalize_fear(x) lies in [0, 1], is non-decreasing in x, is 0.5 at the
\* mean, above 0.5 above the mean and below 0.5 below the mean.
C16_NormalizedScoreInUnitInterval ==
    /\ is_calibrated(fear_calibrator) =>
          /\ SigmoidShaped(fear_calibrator.mean, fear_calibrator.std_dev,
                           NormalizeInputs)
          /\ \A x \in NormalizeInputs :
                normalize_fear(fear_calibrator, x)
                    = normalize_calibrated(fear_calibrator.mean,
                                           fear_calibrator.std_dev, x)
    /\ adaptive_is_calibrated(adaptive_calibrator) =>
          /\ SigmoidShaped(adaptive_calibrator.baseline.mean,
                           adaptive_calibrator.baseline.std_dev,
                           NormalizeInputs)
          /\ \A x \in NormalizeInputs :
                adaptive_normalize_fear(adaptive_calibrator, x)
                    = normalize_calibrated(adaptive_calibrator.baseline.mean,
                                           adaptive_calibrator.baseline.std_dev, x)

\* C17: every path that extracts the fear logit from a 7-element logits
\* array returns the element at index 2, so all paths agree.
C17_FearLogitIsIndexTwo ==
    \A p \in ExtractPaths :
        is_some(extracted[p]) =>
            /\ unwrap(extracted[p]) = index(emotion_logits, 2)
            /\ \A q \in ExtractPaths :
                  is_some(extracted[q]) => extracted[q] = extracted[p]

C17_Witness ==
    /\ impl = "extract"
    /\ emotion_logits = [i \in 1..7 |-> IF i = 3 THEN 1 ELSE 0]
    /\ \A p \in ExtractPaths : extracted[p] = Some(1)

\* C18: while an AdaptiveCalibrator is frozen every add_sample returns
\* Frozen and leaves the baseline (mean, std_dev, sample_count), the phase
\* and the drift checkpoint unchanged; on a calibrator that is not frozen
\* (so after unfreeze) add_sample of a finite sample returns Ok and
\* increments sample_count.
C18_FrozenRejectsSamples ==
    /\ [][(AdaptiveAddSample /\ adaptive_calibrator.frozen) =>
            /\ adaptive_hist'.result = "Frozen"
            /\ baseline_stats(adaptive_calibrator')
                  = baseline_stats(adaptive_calibrator)
            /\ adaptive_calibrator'.initial_complete
                  = adaptive_calibrator.initial_complete
            /\ adaptive_calibrator'.previous_mean
                  = adaptive_calibrator.previous_mean
            /\ adaptive_calibrator'.frozen]_vars
    /\ [][(/\ AdaptiveAddSample
           /\ ~adaptive_calibrator.frozen
           /\ ~adaptive_hist'.non_finite) =>
            /\ adaptive_hist'.result = "Ok"
            /\ adaptive_calibrator'.baseline.sample_count
                  = adaptive_calibrator.baseline.sample_count + 1]_vars

C18_Witness ==
    /\ impl = "adaptive"
    /\ adaptive_calibrator.frozen
    /\ adaptive_hist.result = "Frozen"
    /\ ~adaptive_hist.non_finite
    /\ adaptive_calibrator.baseline.sample_count >= 2
    /\ adaptive_calibrator.baseline.sample_count < MinSamples

\* what add_sample of a non-finite sample leaves alone: sample_count, mean,
\* std_dev and the phase
NonFiniteLeavesBaseline(x) ==
    LET r == adaptive_add_sample(adaptive_calibrator, x, adaptive_hist.now) IN
    /\ baseline_stats(r.cal) = baseline_stats(adaptive_calibrator)
    /\ r.cal.initial_complete = adaptive_calibrator.initial_complete

\* C19 as claimed: add_sample of a non-finite sample never returns an error
\* and never changes sample_count, mean, std_dev or the phase, in any
\* calibrator state.
C19_NonFiniteNeverAnError ==
    \A x \in {i \in AdaptiveInputs : ~is_finite(i)} :
        /\ adaptive_add_sample(adaptive_calibrator, x, adaptive_hist.now).result
              = "Ok"
        /\ NonFiniteLeavesBaseline(x)

\* C19 as the code has it: add_sample of a non-finite sample never changes
\* sample_count, mean, std_dev or the phase in any calibrator state; it
\* returns Ok on a calibrator that is not frozen and Frozen on a frozen one.
C19_NonFiniteDiscarded ==
    /\ \A x \in {i \in AdaptiveInputs : ~is_finite(i)} :
          /\ adaptive_add_sample(adaptive_calibrator, x, adaptive_hist.now).result
                = IF adaptive_calibrator.frozen THEN "Frozen" ELSE "Ok"
          /\ NonFiniteLeavesBaseline(x)
    /\ adaptive_hist.non_finite =>
          adaptive_hist.result
              = IF adaptive_calibrator.frozen THEN "Frozen" ELSE "Ok"

C19_Witness ==
    /\ impl = "adaptive"
    /\ adaptive_hist.non_finite
    /\ adaptive_hist.result = "Frozen"
    /\ adaptive_calibrator.frozen
    /\ adaptive_calibrator.baseline.sample_count >= 2

\* C20: an AdaptiveCalibrator becomes calibrated only in an add_sample call
\* at which the time since creation or reset is at least initial_period and
\* sample_count is at least min_samples (30); in every reachable state
\* is_calibrated() implies sample_count >= 30.
C20_CalibratedNeedsTimeAndSamples ==
    /\ [](adaptive_is_calibrated(adaptive_calibrator) =>
            adaptive_calibrator.baseline.sample_count >= MinSamples)
    /\ [][(/\ ~adaptive_is_calibrated(adaptive_calibrator)
           /\ adaptive_is_calibrated(adaptive_calibrator')) =>
            /\ AdaptiveAddSample
            /\ adaptive_hist.now - adaptive_calibrator.start_time
                  >= adaptive_calibrator.initial_period
            /\ adaptive_calibrator'.baseline.sample_count >= MinSamples
            /\ adaptive_calibrator'.baseline.sample_count
                  = adaptive_calibrator.baseline.sample_count + 1]_vars

C20_Witness ==
    /\ impl = "adaptive"
    /\ adaptive_is_calibrated(adaptive_calibrator)
    /\ adaptive_calibrator.baseline.sample_count = MinSamples
    /\ adaptive_calibrator.initial_period = MaxPeriod
    /\ adaptive_hist.result = "Ok"

\* C21: once an AdaptiveCalibrator is calibrated it stays calibrated across
\* add_sample, freeze, unfreeze, set_alpha and calculate_drift; only
\* reset() returns it to the initial phase.
C21_CalibratedUntilReset ==
    /\ [][(adaptive_is_calibrated(adaptive_calibrator) /\ ~AdaptiveReset)
            => adaptive_is_calibrated(adaptive_calibrator')]_vars
    /\ [][(adaptive_is_calibrated(adaptive_calibrator) /\ AdaptiveReset)
            => ~adaptive_is_calibrated(adaptive_calibrator')]_vars

C21_Witness ==
    /\ impl = "adaptive"
    /\ adaptive_is_calibrated(adaptive_calibrator)
    /\ adaptive_calibrator.baseline.sample_count > MinSamples
    /\ ~adaptive_calibrator.frozen
    /\ adaptive_calibrator.alpha = DefaultAlpha
    /\ adaptive_calibrator.previous_mean = adaptive_calibrator.baseline.mean
    /\ adaptive_hist.result = "none"

\* C22: baseline_stats().std_dev of an AdaptiveCalibrator is at least 0.1
\* in every reachable state: fresh, after the first sample, during the
\* initial phase, in EMA mode, while frozen and after reset.
C22_StdDevAtLeastFloor ==
    baseline_stats(adaptive_calibrator).std_dev >= MinStdDev

C22_Witness ==
    /\ impl = "adaptive"
    /\ adaptive_is_calibrated(adaptive_calibrator)
    /\ adaptive_calibrator.baseline.sample_count > MinSamples
    /\ adaptive_calibrator.alpha = Scale
    /\ baseline_stats(adaptive_calibrator).std_dev = MinStdDev

\* C23 as claimed: the EMA alpha of an AdaptiveCalibrator satisfies
\* 0 < alpha < 1 in every reachable state; out-of-range values are rejected
\* at construction and by set_alpha, and a rejected set_alpha returns
\* InvalidParameters and leaves alpha unchanged.
C23_AlphaInOpenUnitInterval ==
    /\ 0 < adaptive_calibrator.alpha
    /\ adaptive_calibrator.alpha < Scale
    /\ \A alpha \in AlphaInputs :
          (alpha <= 0 \/ alpha >= Scale) =>
              /\ set_alpha(adaptive_calibrator, alpha).result = "InvalidParameters"
              /\ set_alpha(adaptive_calibrator, alpha).cal = adaptive_calibrator

\* C24: reset() from any reachable state (initial, EMA, frozen) gives a
\* calibrator equal to a freshly constructed one with the same
\* initial_period and alpha: sample_count 0, default mean and std_dev, not
\* calibrated, not frozen, drift checkpoint 0, elapsed time restarted.
C24_ResetEqualsFresh ==
    [][AdaptiveReset =>
        /\ adaptive_calibrator'
              = AdaptiveCalibrator_new(adaptive_calibrator.initial_period,
                                       adaptive_calibrator.alpha,
                                       adaptive_hist.now)
        /\ baseline_stats(adaptive_calibrator') = BaselineStats_default
        /\ ~adaptive_is_calibrated(adaptive_calibrator')
        /\ ~adaptive_calibrator'.frozen
        /\ adaptive_calibrator'.previous_mean = 0
        /\ adaptive_calibrator'.start_time = adaptive_hist'.now]_vars

C24_Witness ==
    /\ impl = "adaptive"
    /\ adaptive_hist.now = MaxClock
    /\ adaptive_calibrator
          = AdaptiveCalibrator_new(MaxPeriod, DefaultAlpha, MaxClock)

\* C25: calculate_drift() returns the absolute difference between the
\* current mean and the mean at the previous drift check (or at calibration
\* completion or reset), moves the checkpoint to the current mean and
\* leaves the baseline alone; a second call with no add_sample in between
\* returns 0.
C25_DriftSinceLastCheck ==
    [][CalculateDrift =>
        /\ calculate_drift(adaptive_calibrator).drift
              = Abs(adaptive_calibrator.baseline.mean
                      - adaptive_calibrator.previous_mean)
        /\ adaptive_calibrator'.previous_mean
              = adaptive_calibrator.baseline.mean
        /\ baseline_stats(adaptive_calibrator')
              = baseline_stats(adaptive_calibrator)
        /\ adaptive_calibrator'
              = [adaptive_calibrator EXCEPT
                   !.previous_mean = adaptive_calibrator.baseline.mean]
        /\ calculate_drift(adaptive_calibrator').drift = 0]_vars

\* in the initial phase only calculate_drift moves the checkpoint
C25_Witness ==
    /\ impl = "adaptive"
    /\ ~adaptive_is_calibrated(adaptive_calibrator)
    /\ adaptive_calibrator.baseline.sample_count >= 2
    /\ adaptive_calibrator.baseline.mean >= 1
    /\ adaptive_calibrator.previous_mean = adaptive_calibrator.baseline.mean
    /\ adaptive_hist.result = "none"

\* C26: progress() always lies in [0, 1], is min(elapsed / initial_period,
\* sample_count / min_samples) capped at 1 while not calibrated, is exactly
\* 1.0 whenever is_calibrated() holds, and is 0 for a fresh calibrator.
C26_ProgressInUnitInterval ==
    LET c == adaptive_calibrator
        p == progress(c, adaptive_hist.now)
        elapsed == adaptive_hist.now - c.start_time
        n == c.baseline.sample_count
    IN  /\ 0 <= p /\ p <= Scale
        /\ adaptive_is_calibrated(c) => p = Scale
        /\ ~adaptive_is_calibrated(c) =>
              /\ p * c.min_samples <= n * Scale
              /\ c.initial_period >= 1 => p * c.initial_period <= elapsed * Scale
              /\ \/ p = Scale
                 \/ n * Scale < (p + 1) * c.min_samples
                 \/ /\ c.initial_period >= 1
                    /\ elapsed * Scale < (p + 1) * c.initial_period
        /\ (n = 0 /\ ~adaptive_is_calibrated(c)) => p = 0

C26_Witness ==
    /\ impl = "adaptive"
    /\ ~adaptive_is_calibrated(adaptive_calibrator)
    /\ adaptive_calibrator.initial_period = MaxPeriod
    /\ adaptive_hist.now - adaptive_calibrator.start_time
          = adaptive_calibrator.initial_period
    /\ adaptive_calibrator.baseline.sample_count * 2 = MinSamples
    /\ progress(adaptive_calibrator, adaptive_hist.now) * 2 = Scale

BucketRank(b) == CASE b = "Low" -> 0 [] b = "Medium" -> 1 [] b = "High" -> 2

\* C27: FearBucket::from_score maps every score to exactly one bucket, is
\* non-decreasing in the score, and switches exactly at 0.33 and 0.66:
\* below 0.33 Low, in [0.33, 0.66) Medium, from 0.66 up High; the copies in
\* core and in spectre_sensor agree.
C27_BucketThresholds ==
    /\ \A s \in GameScores :
          /\ from_score(s) \in {"Low", "Medium", "High"}
          /\ from_score(s) = sensor_from_score(s)
          /\ is_finite(s) =>
                /\ from_score(s) = "Low" <=> s[2] < score(3300)
                /\ from_score(s) = "Medium"
                      <=> (score(3300) <= s[2] /\ s[2] < score(6600))
                /\ from_score(s) = "High" <=> score(6600) <= s[2]
    /\ \A s, u \in {i \in GameScores : is_finite(i)} :
          s[2] <= u[2] => BucketRank(from_score(s)) <= BucketRank(from_score(u))
    /\ game.received >= 1 =>
          fear_state.current_bucket = from_score(fear_state.current_fear)

C27_Witness ==
    /\ impl = "game"
    /\ game.received >= 2
    /\ fear_state.current_fear = finite(score(3300))
    /\ fear_state.current_bucket = "Medium"
    /\ fear_state.previous_bucket = "Low"

\* C28 as claimed: the terrain rebuild fires exactly once for each bucket
\* transition in the received frame sequence, and never for a frame whose
\* bucket equals the previous one, also when several frames are drained in
\* one tick.
C28_RebuildOncePerTransition ==
    (impl = "game" /\ game.next = "update_fear_system") =>
        game.rebuilds = game.transitions

\* C29 as claimed: on every producer tick in which a camera frame was
\* captured, exactly one measurement frame is built and one send is
\* attempted, also when no face is found or inference fails, and the loop
\* goes on; for the EmotionSensor and for the OnnxFearSensor loop.
C29_CapturedTickBuildsFrame ==
    [][/\ LoopProcessFrame(1) =>
            /\ built'[1] = built[1] + 1
            /\ pc'[1] # "exit" \/ closed_rejected' = closed_rejected + 1
       /\ (LegacyTick(1) /\ pc'[1] # "l_retry_sleep") =>
            built'[1] = built[1] + 1]_vars

\* C30 as claimed: every FearFrame or FearScore a sensor implementation
\* places on its output channel has a score in [0, 1], whether it is
\* flagged calibrated or not.
C30_SentScoreInUnitInterval ==
    is_some(score_out) => in_unit_interval(unwrap(score_out).value)

\* C32 as claimed: a calibration control call acknowledged with Ok is applied
\* to the calibrator the producer loop uses, also while the sensor is
\* running: after control_calibration(true) the loop's calibrator is frozen,
\* after reset_calibration it is not.
C32_ControlReachesLoopCalibrator ==
    [][\A s \in Sessions :
         (s = nsessions /\ pc[s] \in LoopAlive \cup {"spawned"}) =>
            /\ control_calibration(TRUE) => loop_cal'[s].frozen
            /\ reset_calibration => ~loop_cal'[s].frozen]_vars

\* C33 as claimed: after every successful initialize(), a re-initialization
\* after an earlier session included, the shared status is the fresh one
\* (running false, no error, no counts of the earlier session).
C33_InitializeResetsStatus ==
    [][Initialize => state' = SensorState_default]_vars

\* the positions of processing_loop inside its loop body
Ticking == {"top", "retry_sleep", "process", "pace_sleep"}

\* C34 as claimed: at most one producer loop of an EmotionSensor is executing
\* ticks at any time, whatever the interleaving of initialize, start and stop
\* calls with the loop iterations.
C34_OneLoopTicking ==
    Cardinality({s \in Sessions : pc[s] \in Ticking}) <= 1

\* C36 as claimed: when no task spawned by start is alive or about to begin
\* ticking (each has ended by a stop request, a closed channel or a camera
\* that did not open, or none was spawned), the running flag is false.
C36_RunningOnlyWhileLoopAlive ==
    (impl = "emotion" /\ \A s \in Sessions : pc[s] \notin LoopAlive \cup {"spawned"})
        => ~state.running

\* the errors of process_frame that come from detection and inference
DetectionErrors == {"FaceDetection", "FrameProcessing"}

\* C39 as claimed: a loop whose calibrator was frozen before start still
\* builds one frame for each camera frame whose detection and inference
\* succeeded; the Frozen result of add_sample does not suppress the frame.
C39_FrozenLoopStillEmits ==
    [][(/\ LoopProcessFrame(1)
        /\ loop_cal[1].frozen
        /\ state'.last_error \notin DetectionErrors)
            => built'[1] = built[1] + 1]_vars

\* C40: an AdaptiveCalibrator that is never frozen and never reset, whose
\* clock keeps advancing and that keeps being given finite samples, is
\* eventually calibrated: the add_sample of a finite sample made when the
\* initial period has elapsed and the count reaches min_samples or more
\* completes the initial calibration.
C40_EventuallyCalibrated ==
    /\ <>adaptive_is_calibrated(adaptive_calibrator)
    /\ [][(/\ AddFiniteSample
           /\ adaptive_hist.now - adaptive_calibrator.start_time
                 >= adaptive_calibrator.initial_period
           /\ adaptive_calibrator.baseline.sample_count + 1 >= MinSamples)
              => adaptive_is_calibrated(adaptive_calibrator')]_vars

\* calibrated by a sample added after the count had passed min_samples
\* while the initial period was still running
C40_Witness ==
    /\ adaptive_is_calibrated(adaptive_calibrator)
    /\ adaptive_calibrator.initial_period >= 1
    /\ adaptive_calibrator.baseline.sample_count > MinSamples
    /\ adaptive_calibrator.previous_mean = adaptive_calibrator.baseline.mean

\* C31 as claimed: a session is never started with an invalid configuration:
\* with a channel_buffer_size of 0 or a target_fps that is not positive,
\* start does not return Ok, no channel is created and no producer task is
\* spawned.
C31_InvalidConfigNeverStarted ==
    validate(config) # "Ok" =>
        /\ start_result # "Ok"
        /\ \A s \in Sessions : chan[s] = NoChannel /\ pc[s] = "none"

\* the positions where processing_loop is suspended: the retry sleep, the
\* await of process_frame, the pacing sleep
Suspended == {"retry_sleep", "process", "pace_sleep"}

C37_DroppedScoreReceiverEndsLoop ==
    /\ []((/\ forward_pc = "convert"
           /\ is_closed(outbound)
           /\ Len(chan[1].queue) > 0)
              => <>(forward_pc = "convert_done"))
    /\ []((/\ forward_pc = "convert_done"
           /\ is_closed(outbound)
           /\ pc[1] \in LoopAlive
           /\ TotalBuilt < MaxFrames)
              => <>(pc[1] = "done" /\ ~state.running))

\* C38 as claimed: the gRPC event bridge leaves its loop, and so drops the
\* frame receiver and closes the frame channel under the producer, only
\* when the client dropped the stream or the producer has ended; a full
\* outbound buffer only loses that event.
C38_FullBufferOnlyDropsEvent ==
    forward_pc = "bridge_done" =>
        \/ is_closed(outbound)
        \/ \A s \in Sessions : pc[s] \in {"done", "failed"}
=============================================================================
